---- MODULE Spec2Model ----
(***************************************************************************)
(* Turn orchestrator and per-run event store of the Morpheus backend.      *)
(*                                                                         *)
(* One run store (tables events, snapshots, pipeline_events and            *)
(* turn_execution) and the three turn endpoints of the API (POST /turn,    *)
(* POST /turn/step/start, POST /turn/step/next) that drive the router      *)
(* pipeline over it.  Module services are an environment that answers each *)
(* call with a schema-valid output or fails.                               *)
(***************************************************************************)
EXTENDS Integers, Sequences, FiniteSets, TLC

VARIABLES
    started,     \* the run store exists on disk (POST /run/start happened)
    events,      \* table events, in id order
    snapshots,   \* table snapshots, in id order
    pipeline,    \* table pipeline_events, in id order
    exec,        \* table turn_execution of the run: turn -> row
    failures,    \* number of failed requests that left rows behind
    inflight,    \* the requests that await the answer of a module
    begun,       \* number of requests that were handled in more than one step
    moduleBindings,  \* manifest.moduleBindings: binding key -> binding or None
    environment,     \* process.env: variable name -> value or None
    moduleUrls       \* the ModuleUrls of the last runStage, None before any

registry == <<moduleBindings, environment, moduleUrls>>

vars == <<started, events, snapshots, pipeline, exec, failures, inflight, begun,
          moduleBindings, environment, moduleUrls>>

-----------------------------------------------------------------------------
(* Bounds of the model.                                                    *)

MaxTurn == 2
MaxFailures == 1
MaxBegun == 2
MaxOverlapTurn == 1

-----------------------------------------------------------------------------
(* Values.                                                                 *)

None == <<>>
Some(v) == <<v>>
IsSome(o) == Len(o) > 0
Get(o) == o[1]

RunId == "run-1"
PlayerId == "entity.player.captain"
PlayerInputs == {"Look around.", "Attack."}

Turns == 1..(MaxTurn + 1)

STAGE_ORDER ==
    << "intent_extractor", "loremaster_retrieve", "loremaster_pre",
       "default_simulator", "loremaster_post", "arbiter", "proser",
       "world_state_update" >>

(* Intent names are sequences of words and underscores, so that            *)
(* intent.replace(/_/g, " ") is a real conversion.  Texts (reasons,        *)
(* narration) are sequences of string pieces; "" is the empty sequence.    *)
ATTACK == <<"attack">>
OPEN_DOOR == <<"open", "_", "door">>
INSPECT == <<"inspect", "_", "environment">>

Candidate(intent, tags) == [intent |-> intent, consequenceTags |-> tags]

(* Outputs of the intent extractor (ActionCandidates.candidates, min 1).   *)
IntentOutputs ==
    { << Candidate(INSPECT, {}) >>,
      << Candidate(ATTACK, {"no_target_in_scope"}) >>,
      << Candidate(INSPECT, {"needs_clarification"}) >>,
      << Candidate(INSPECT, {"needs_clarification"}),
         Candidate(OPEN_DOOR, {"no_target_in_scope", "needs_clarification"}) >> }

Assessment(idx, tags, rationale) ==
    [candidateIndex |-> idx, consequenceTags |-> tags, rationale |-> rationale]

RATIONALE == <<"No valid target is in scope.", " ">>

(* Outputs of the loremaster pre-check (LoremasterOutput.assessments).     *)
PreOutputs ==
    { << Assessment(0, {}, <<"Valid action.">>) >>,
      << Assessment(0, {"no_target_in_scope"}, RATIONALE) >> }

Operation(op, scope, text) == [op |-> op, scope |-> scope, text |-> text]

SimProposal ==
    [moduleName |-> "default_simulator",
     operations |-> << Operation("observation", "view:player", <<"You scan the desert.">>) >>]

AltProposal ==
    [moduleName |-> "arbiter",
     operations |-> << Operation("upsert_fact", "world", <<"door.open">>),
                       Operation("observation", "view:player", <<"The door opens.">>) >>]

ArbiterOutputs ==
    { [decision |-> "accept", selectedProposal |-> SimProposal],
      [decision |-> "choose_alternative", selectedProposal |-> AltProposal] }

LoreRetrievalOutput == [summary |-> "Retrieved lore."]
LorePostOutput == [status |-> "consistent", rationale |-> "Consistent with lore."]
NARRATION == <<"Dust sweeps across the crawler deck as you survey the dunes.">>

DefaultIntent == << Candidate(INSPECT, {}) >>
DefaultPre == << Assessment(0, {}, <<"Valid action.">>) >>
DefaultArbiter == [decision |-> "accept", selectedProposal |-> SimProposal]

(* What the module services answer in one pass over the pipeline: the      *)
(* outputs of the modules, and the index in STAGE_ORDER of the stage whose *)
(* call fails (timeout, network error, HTTP status, schema error); 0 when  *)
(* no call fails.  An output that no stage gets to read is left at its     *)
(* default.                                                                *)
Responses ==
    { r \in [ intent : IntentOutputs, pre : PreOutputs,
              arbiter : ArbiterOutputs, failAt : 0..7 ] :
        /\ r.failAt = 1 => r.intent = DefaultIntent
        /\ r.failAt \in 1..3 => r.pre = DefaultPre
        /\ r.failAt \in 1..6 => r.arbiter = DefaultArbiter }

(* The answers to the single call of stage number i.                        *)
StageResponses(i) ==
    { r \in Responses :
        /\ r.failAt \in {0, i}
        /\ i # 1 => r.intent = DefaultIntent
        /\ i # 3 => r.pre = DefaultPre
        /\ i # 6 => r.arbiter = DefaultArbiter }

-----------------------------------------------------------------------------
(* Refusal derivation.                                                     *)

HasNoTarget(item) == "no_target_in_scope" \in item.consequenceTags

RECURSIVE FindIndex(_, _)
FindIndex(seq, i) ==
    IF i > Len(seq) THEN 0
    ELSE IF HasNoTarget(seq[i]) THEN i
    ELSE FindIndex(seq, i + 1)

replaceUnderscores(intent) ==
    [i \in 1..Len(intent) |-> IF intent[i] = "_" THEN " " ELSE intent[i]]

AttackReason == <<"Refused: no valid attack target is currently in scope.">>
NoTargetReason(intent) ==
    <<"Refused: no valid target is in scope for ">> \o replaceUnderscores(intent) \o <<".">>
AmbiguousReason == <<"Refused: action is ambiguous and cannot be safely resolved.">>
UnsafeReason == <<"Refused: action cannot be resolved safely.">>

deriveRefusalReasonFromIntent(candidates) ==
    LET k == FindIndex(candidates, 1) IN
    IF k = 0 THEN None
    ELSE IF "no_target_in_scope" \in candidates[k].consequenceTags
         THEN IF candidates[k].intent = ATTACK
              THEN Some(AttackReason)
              ELSE Some(NoTargetReason(candidates[k].intent))
         ELSE Some(AmbiguousReason)

RECURSIVE trimStart(_)
trimStart(s) == IF s # <<>> /\ Head(s) = " " THEN trimStart(Tail(s)) ELSE s

RECURSIVE trimEnd(_)
trimEnd(s) ==
    IF s # <<>> /\ s[Len(s)] = " " THEN trimEnd(SubSeq(s, 1, Len(s) - 1)) ELSE s

(* String.prototype.trim: whitespace is stripped at both ends only.         *)
trim(s) == trimEnd(trimStart(s))

deriveRefusalReasonFromLoremaster(candidates, assessments) ==
    LET k == FindIndex(assessments, 1) IN
    IF k = 0 THEN None
    ELSE IF trim(assessments[k].rationale) # <<>>
         THEN Some(<<"Refused: ">> \o trim(assessments[k].rationale))
         ELSE LET idx == assessments[k].candidateIndex + 1 IN
              IF idx > Len(candidates)
              THEN Some(UnsafeReason)
              ELSE deriveRefusalReasonFromIntent(<< candidates[idx] >>)

-----------------------------------------------------------------------------
(* Checkpoint and the payloads built from it.                              *)

RouterSummary == "Action resolved with router-managed module pipeline."

(* arbiterCommit that commits the proposal of the simulator.                *)
arbiterCommitOfSimulator(turn, proposal) ==
    [turn |-> turn, operations |-> SimProposal.operations, summary |-> RouterSummary]

arbiterCommit(turn, proposal) ==
    [turn |-> turn, operations |-> proposal.operations, summary |-> RouterSummary]

(* buildRefusalProposal with the observation put in the world scope.        *)
buildRefusalProposalInWorld(input, refusalReason) ==
    [moduleName |-> "refusal_handler",
     operations |-> << Operation("observation", "world", refusalReason) >>]

buildRefusalProposal(input, refusalReason) ==
    [moduleName |-> "refusal_handler",
     operations |-> << Operation("observation", "view:player", refusalReason) >>]

buildFallbackLorePost ==
    [status |-> "consistent",
     rationale |-> "Post-diff lore check skipped due to refusal path."]

emptyCheckpoint ==
    [intent |-> None, loreRetrieval |-> None, loremasterPre |-> None,
     proposal |-> None, lorePost |-> None, committed |-> None,
     arbiterDecision |-> None, narrationText |-> None, warnings |-> <<>>,
     llmConversations |-> {}, refusalReason |-> None]

OptionalKeys ==
    {"intent", "loreRetrieval", "loremasterPre", "proposal", "lorePost",
     "committed", "arbiterDecision", "narrationText", "refusalReason"}

(* stringifyCheckpoint that writes no warnings.                             *)
stringifyCheckpointNoWarnings(checkpoint) ==
    [k \in {o \in OptionalKeys : IsSome(checkpoint[o])} \cup {"warnings", "llmConversations"} |->
        IF k \in OptionalKeys THEN Get(checkpoint[k])
        ELSE IF k = "warnings" THEN <<>>
        ELSE checkpoint[k]]

(* stringifyCheckpoint that writes null for a value that is undefined.     *)
stringifyCheckpointWritingNull(checkpoint) ==
    [k \in OptionalKeys \cup {"warnings", "llmConversations"} |->
        IF k \notin OptionalKeys THEN checkpoint[k]
        ELSE IF IsSome(checkpoint[k]) THEN Get(checkpoint[k])
        ELSE "null"]

(* JSON.stringify(state.checkpoint ?? {}): a key whose value is undefined  *)
(* is not written.                                                         *)
stringifyCheckpoint(checkpoint) ==
    [k \in {o \in OptionalKeys : IsSome(checkpoint[o])} \cup {"warnings", "llmConversations"} |->
        IF k \in OptionalKeys THEN Get(checkpoint[k]) ELSE checkpoint[k]]

Field(json, k) == IF k \in DOMAIN json THEN Some(json[k]) ELSE None

(* parseCheckpoint that does not carry the committed diff over.             *)
parseCheckpointNoCommitted(value) ==
    IF ~IsSome(value) THEN emptyCheckpoint
    ELSE LET parsed == Get(value) IN
         [intent |-> Field(parsed, "intent"),
          loreRetrieval |-> Field(parsed, "loreRetrieval"),
          loremasterPre |-> Field(parsed, "loremasterPre"),
          proposal |-> Field(parsed, "proposal"),
          lorePost |-> Field(parsed, "lorePost"),
          committed |-> None,
          arbiterDecision |-> Field(parsed, "arbiterDecision"),
          narrationText |-> Field(parsed, "narrationText"),
          warnings |-> IF "warnings" \in DOMAIN parsed THEN parsed.warnings ELSE <<>>,
          llmConversations |->
              IF "llmConversations" \in DOMAIN parsed THEN parsed.llmConversations ELSE {},
          refusalReason |-> Field(parsed, "refusalReason")]

(* parseCheckpoint over the parsed column; value is None when the row is   *)
(* missing (readTurnExecutionCheckpoint returns null).                     *)
parseCheckpoint(value) ==
    IF ~IsSome(value) THEN emptyCheckpoint
    ELSE LET parsed == Get(value) IN
         [intent |-> Field(parsed, "intent"),
          loreRetrieval |-> Field(parsed, "loreRetrieval"),
          loremasterPre |-> Field(parsed, "loremasterPre"),
          proposal |-> Field(parsed, "proposal"),
          lorePost |-> Field(parsed, "lorePost"),
          committed |-> Field(parsed, "committed"),
          arbiterDecision |-> Field(parsed, "arbiterDecision"),
          narrationText |-> Field(parsed, "narrationText"),
          warnings |-> IF "warnings" \in DOMAIN parsed THEN parsed.warnings ELSE <<>>,
          llmConversations |->
              IF "llmConversations" \in DOMAIN parsed THEN parsed.llmConversations ELSE {},
          refusalReason |-> Field(parsed, "refusalReason")]

(* shouldSkipStage without proser on the list.                             *)
shouldSkipStageButProser(stage, checkpoint) ==
    IF ~IsSome(checkpoint.refusalReason) THEN FALSE
    ELSE stage \in {"default_simulator", "loremaster_post", "arbiter"}

(* shouldSkipStage with world_state_update on the list.                     *)
shouldSkipStageToTheEnd(stage, checkpoint) ==
    IF ~IsSome(checkpoint.refusalReason) THEN FALSE
    ELSE stage \in {"default_simulator", "loremaster_post", "arbiter", "proser",
                    "world_state_update"}

shouldSkipStage(stage, checkpoint) ==
    IF ~IsSome(checkpoint.refusalReason) THEN FALSE
    ELSE stage \in {"default_simulator", "loremaster_post", "arbiter", "proser"}

(* resolveStageFromCursor reading STAGE_ORDER one place too far.            *)
resolveStageFromCursorOffByOne(cursor) ==
    IF cursor < 0 \/ cursor + 1 >= Len(STAGE_ORDER) THEN None
    ELSE Some(STAGE_ORDER[cursor + 2])

resolveStageFromCursor(cursor) ==
    IF cursor < 0 \/ cursor >= Len(STAGE_ORDER) THEN None
    ELSE Some(STAGE_ORDER[cursor + 1])

stageEndpoint(stage) ==
    CASE stage = "intent_extractor"    -> "/invoke"
      [] stage = "loremaster_retrieve" -> "/retrieve"
      [] stage = "loremaster_pre"      -> "/pre"
      [] stage = "default_simulator"   -> "/invoke"
      [] stage = "loremaster_post"     -> "/post"
      [] stage = "arbiter"             -> "/invoke"
      [] stage = "proser"              -> "/invoke"
      [] OTHER                         -> "persist"

-----------------------------------------------------------------------------
(* The run store.  db is the record of the four tables.                    *)

Store == [events |-> events, snapshots |-> snapshots, pipeline |-> pipeline, exec |-> exec]

SeedSnapshot == [turn |-> 0, worldState |-> "seed", viewState |-> <<>>]

(* CREATE TABLE IF NOT EXISTS for each table: no row is written.            *)
initializeSessionSchema(db) == db

(* initializeRunStore: the schema, the meta rows (not modelled) and         *)
(* INSERT OR IGNORE INTO snapshots (turn, ...) VALUES (0, ...).  The table  *)
(* has no unique key but its autoincrement id, so no insert is ignored.     *)
initializeRunStore(db) ==
    [initializeSessionSchema(db) EXCEPT !.snapshots = Append(@, SeedSnapshot)]

(* openRunStore that initialises the run on every opening.                  *)
openRunStoreInitializing(db) == initializeRunStore(db)

openRunStore(db) == initializeSessionSchema(db)

Max(S) == CHOOSE x \in S : \A y \in S : y <= x

(* ExpectedTurn with the number of rows in the place of MAX(turn).          *)
ExpectedTurnByCount(db) == Len(db.snapshots) + 1

(* SELECT MAX(turn) FROM snapshots, then (maxTurn ?? 0) + 1                *)
ExpectedTurn(db) ==
    IF Len(db.snapshots) = 0 THEN 1
    ELSE Max({db.snapshots[i].turn : i \in 1..Len(db.snapshots)}) + 1

RECURSIVE OrderByStep(_, _, _)
OrderByStep(rows, n, max) ==
    IF n > max THEN <<>>
    ELSE SelectSeq(rows, LAMBDA r : r.stepNumber = n) \o OrderByStep(rows, n + 1, max)

(* SELECT payload FROM pipeline_events WHERE turn = ? ORDER BY step_number, id *)
listPipelineEvents(db, turn) ==
    LET rows == SelectSeq(db.pipeline, LAMBDA r : r.turn = turn) IN
    IF \A i \in 1..(Len(rows) - 1) : rows[i].stepNumber <= rows[i + 1].stepNumber
    THEN rows
    ELSE OrderByStep(rows, 1, Max({rows[i].stepNumber : i \in 1..Len(rows)}))

(* appendStepEvent that numbers the steps over the whole run.               *)
appendStepEventRunWide(db, input, stage, status) ==
    LET nextEvent == [turn |-> input.turn, stepNumber |-> Len(db.pipeline) + 1,
                      stage |-> stage, endpoint |-> IF stage = "frontend_input" THEN "frontend" ELSE stageEndpoint(stage),
                      status |-> status]
    IN [db EXCEPT !.pipeline = Append(@, nextEvent)]

appendStepEvent(db, input, stage, status) ==
    LET existing == listPipelineEvents(db, input.turn)
        nextEvent == [turn |-> input.turn, stepNumber |-> Len(existing) + 1,
                      stage |-> stage, endpoint |-> IF stage = "frontend_input" THEN "frontend" ELSE stageEndpoint(stage),
                      status |-> status]
    IN [db EXCEPT !.pipeline = Append(@, nextEvent)]

EventsOf(db, turn, type) ==
    SelectSeq(db.events, LAMBDA e : e.turn = turn /\ e.eventType = type)

appendEvent(db, turn, type, payload) ==
    [db EXCEPT !.events = Append(@, [turn |-> turn, eventType |-> type, payload |-> payload])]

(* ensurePlayerInputRecorded that rewrites the row it finds.                *)
ensurePlayerInputRecordedRewriting(db, input) ==
    IF Len(EventsOf(db, input.turn, "player_input")) > 0
    THEN [db EXCEPT !.events =
            [i \in 1..Len(db.events) |->
                IF db.events[i].turn = input.turn /\ db.events[i].eventType = "player_input"
                THEN [db.events[i] EXCEPT !.payload = [text |-> input.playerInput]]
                ELSE db.events[i]]]
    ELSE appendEvent(db, input.turn, "player_input", [text |-> input.playerInput])

(* ensurePlayerInputRecorded without the test for an event already there.   *)
ensurePlayerInputRecordedAgain(db, input) ==
    appendEvent(db, input.turn, "player_input", [text |-> input.playerInput])

ensurePlayerInputRecorded(db, input) ==
    IF Len(EventsOf(db, input.turn, "player_input")) > 0 THEN db
    ELSE appendEvent(db, input.turn, "player_input", [text |-> input.playerInput])

getTurnExecutionState(db, turn) ==
    IF turn \in DOMAIN db.exec
    THEN Some([turn |-> turn, mode |-> db.exec[turn].mode, cursor |-> db.exec[turn].cursor,
               completed |-> db.exec[turn].completed, playerInput |-> db.exec[turn].playerInput,
               result |-> db.exec[turn].result])
    ELSE None

readTurnExecutionCheckpoint(db, turn) ==
    IF turn \in DOMAIN db.exec THEN Some(db.exec[turn].checkpoint) ELSE None

RECURSIVE Descending(_)
(* The turns sorted the other way round.                                    *)
Descending(S) ==
    IF S = {} THEN <<>>
    ELSE LET most == CHOOSE x \in S : \A y \in S : y <= x
         IN <<most>> \o Descending(S \ {most})

RECURSIVE Ascending(_)
Ascending(S) ==
    IF S = {} THEN <<>>
    ELSE LET least == CHOOSE x \in S : \A y \in S : x <= y
         IN <<least>> \o Ascending(S \ {least})

LastOr(seq, default) == IF seq = <<>> THEN default ELSE seq[Len(seq)]

(* readSessionState: one entry per turn that has events, the later row of a *)
(* type overriding the earlier one; timestamps are left out.                *)
readSessionState(db) ==
    LET orderedTurns == Ascending({db.events[i].turn : i \in 1..Len(db.events)})
        playerText(turn) ==
            LastOr([i \in 1..Len(EventsOf(db, turn, "player_input")) |->
                       EventsOf(db, turn, "player_input")[i].payload.text], "")
        traces(turn) ==
            [i \in 1..Len(EventsOf(db, turn, "module_trace")) |->
                EventsOf(db, turn, "module_trace")[i].payload]
    IN [messages |->
            [i \in 1..Len(orderedTurns) |->
                [turn |-> orderedTurns[i],
                 playerText |-> playerText(orderedTurns[i]),
                 engineText |->
                     IF traces(orderedTurns[i]) = <<>> THEN <<>>
                     ELSE LastOr(traces(orderedTurns[i]), <<>>).narrationText]],
        debugEntries |->
            [i \in 1..Len(orderedTurns) |->
                [turn |-> orderedTurns[i],
                 trace |-> IF traces(orderedTurns[i]) = <<>> THEN None
                           ELSE Some(LastOr(traces(orderedTurns[i]), <<>>))]],
        nextTurn |-> IF Len(db.snapshots) = 0 THEN 1
                     ELSE Max({db.snapshots[i].turn : i \in 1..Len(db.snapshots)}) + 1]

readPipelineState(db, turn) ==
    [execution |-> getTurnExecutionState(db, turn),
     events |-> listPipelineEvents(db, turn)]

(* INSERT INTO turn_execution: the primary key (run_id, turn) rejects a    *)
(* second row for the turn; ok = FALSE is the thrown constraint error.     *)
createTurnExecution(db, input, mode, checkpoint) ==
    IF input.turn \in DOMAIN db.exec
    THEN [ok |-> FALSE, db |-> db]
    ELSE [ok |-> TRUE,
          db |-> [db EXCEPT !.exec =
                    [t \in DOMAIN db.exec \cup {input.turn} |->
                        IF t = input.turn
                        THEN [mode |-> mode, cursor |-> 0, completed |-> FALSE,
                              playerInput |-> input.playerInput,
                              checkpoint |-> stringifyCheckpoint(checkpoint),
                              result |-> [narrationText |-> None, warnings |-> <<>>]]
                        ELSE db.exec[t]]]]

(* updateTurnExecutionProgress that leaves the completed column alone.      *)
updateTurnExecutionProgressStillRunning(db, turn, cursor, checkpoint, completed) ==
    IF turn \in DOMAIN db.exec
    THEN [db EXCEPT !.exec[turn] =
            [@ EXCEPT !.cursor = cursor,
                      !.checkpoint = stringifyCheckpoint(checkpoint),
                      !.result = [narrationText |-> checkpoint.narrationText,
                                  warnings |-> checkpoint.warnings]]]
    ELSE db

(* updateTurnExecutionProgress with no turn in its WHERE clause: it updates *)
(* the row of every turn of the run.                                        *)
updateTurnExecutionProgressEveryTurn(db, turn, cursor, checkpoint, completed) ==
    [db EXCEPT !.exec =
        [t \in DOMAIN db.exec |->
            [db.exec[t] EXCEPT !.cursor = cursor,
                               !.checkpoint = stringifyCheckpoint(checkpoint),
                               !.completed = completed,
                               !.result = [narrationText |-> checkpoint.narrationText,
                                           warnings |-> checkpoint.warnings]]]]

(* UPDATE turn_execution SET cursor, checkpoint, completed, result         *)
(* WHERE run_id = ? AND turn = ?                                           *)
updateTurnExecutionProgress(db, turn, cursor, checkpoint, completed) ==
    IF turn \in DOMAIN db.exec
    THEN [db EXCEPT !.exec[turn] =
            [@ EXCEPT !.cursor = cursor,
                      !.checkpoint = stringifyCheckpoint(checkpoint),
                      !.completed = completed,
                      !.result = [narrationText |-> checkpoint.narrationText,
                                  warnings |-> checkpoint.warnings]]]
    ELSE db

-----------------------------------------------------------------------------
(* The pipeline driver.                                                    *)

OrElse(o, default) == IF IsSome(o) THEN Get(o) ELSE default

buildTurnTracePayload(checkpoint, pipelineEvents) ==
    [intent |-> checkpoint.intent,
     loremaster |-> [retrieval |-> checkpoint.loreRetrieval,
                     pre |-> checkpoint.loremasterPre,
                     post |-> OrElse(checkpoint.lorePost, buildFallbackLorePost)],
     proposal |-> checkpoint.proposal,
     arbiter |-> checkpoint.arbiterDecision,
     committed |-> checkpoint.committed,
     refusal |-> IF IsSome(checkpoint.refusalReason)
                 THEN Some([reason |-> Get(checkpoint.refusalReason)])
                 ELSE None,
     warnings |-> checkpoint.warnings,
     narrationText |-> OrElse(checkpoint.narrationText, <<>>),
     pipelineEvents |-> pipelineEvents,
     llmConversations |-> checkpoint.llmConversations]

(* persistTurnFinalState that writes the committed_diff row first.          *)
persistTurnFinalStateDiffFirst(db, input, checkpoint) ==
    LET pipelineEvents == listPipelineEvents(db, input.turn)
        trace == buildTurnTracePayload(checkpoint, pipelineEvents)
        db1 == appendEvent(db, input.turn, "committed_diff", Get(checkpoint.committed))
        db2 == appendEvent(db1, input.turn, "module_trace", trace)
    IN [db2 EXCEPT !.snapshots =
            Append(@, [turn |-> input.turn,
                       worldState |-> Get(checkpoint.committed).summary,
                       viewState |-> Get(checkpoint.committed).operations])]

(* persistTurnFinalState without the module_trace row.                      *)
persistTurnFinalStateNoTrace(db, input, checkpoint) ==
    LET db2 == appendEvent(db, input.turn, "committed_diff", Get(checkpoint.committed))
    IN [db2 EXCEPT !.snapshots =
            Append(@, [turn |-> input.turn,
                       worldState |-> Get(checkpoint.committed).summary,
                       viewState |-> Get(checkpoint.committed).operations])]

persistTurnFinalState(db, input, checkpoint) ==
    LET pipelineEvents == listPipelineEvents(db, input.turn)
        trace == buildTurnTracePayload(checkpoint, pipelineEvents)
        db1 == appendEvent(db, input.turn, "module_trace", trace)
        db2 == appendEvent(db1, input.turn, "committed_diff", Get(checkpoint.committed))
    IN [db2 EXCEPT !.snapshots =
            Append(@, [turn |-> input.turn,
                       worldState |-> Get(checkpoint.committed).summary,
                       viewState |-> Get(checkpoint.committed).operations])]

Thrown(db, checkpoint, called) ==
    [ok |-> FALSE, db |-> db, checkpoint |-> checkpoint, called |-> called]

Returned(db, checkpoint, called) ==
    [ok |-> TRUE, db |-> db, checkpoint |-> checkpoint, called |-> called]

(* runWorldStateUpdate that persists the final state before it appends the *)
(* step event of the stage.                                                *)
runWorldStateUpdatePersistFirst(db, input, checkpoint) ==
    LET refusalReason == checkpoint.refusalReason
        proposal == IF IsSome(refusalReason)
                    THEN Some(buildRefusalProposal(input, Get(refusalReason)))
                    ELSE checkpoint.proposal
        lorePost == IF IsSome(refusalReason) THEN Some(buildFallbackLorePost)
                    ELSE checkpoint.lorePost
    IN IF ~IsSome(checkpoint.committed) /\ ~IsSome(proposal)
       THEN Thrown(db, checkpoint, FALSE)
       ELSE LET committed == OrElse(checkpoint.committed, arbiterCommit(input.turn, Get(proposal)))
                narrationText == IF IsSome(refusalReason) THEN Get(refusalReason)
                                 ELSE OrElse(checkpoint.narrationText, <<>>)
                persistedCheckpoint ==
                    [checkpoint EXCEPT !.proposal = proposal,
                                       !.lorePost = lorePost,
                                       !.committed = Some(committed),
                                       !.narrationText = Some(narrationText)]
                db1 == persistTurnFinalState(db, input, persistedCheckpoint)
            IN Returned(appendStepEvent(db1, input, "world_state_update", "ok"),
                        persistedCheckpoint, FALSE)

(* The final branch of runStage (stage world_state_update).                *)
runWorldStateUpdate(db, input, checkpoint) ==
    LET refusalReason == checkpoint.refusalReason
        proposal == IF IsSome(refusalReason)
                    THEN Some(buildRefusalProposal(input, Get(refusalReason)))
                    ELSE checkpoint.proposal
        lorePost == IF IsSome(refusalReason) THEN Some(buildFallbackLorePost)
                    ELSE checkpoint.lorePost
    IN IF ~IsSome(checkpoint.committed) /\ ~IsSome(proposal)
       THEN Thrown(db, checkpoint, FALSE)
       ELSE LET committed == OrElse(checkpoint.committed, arbiterCommit(input.turn, Get(proposal)))
                narrationText == IF IsSome(refusalReason) THEN Get(refusalReason)
                                 ELSE OrElse(checkpoint.narrationText, <<>>)
                db1 == appendStepEvent(db, input, "world_state_update", "ok")
                persistedCheckpoint ==
                    [checkpoint EXCEPT !.proposal = proposal,
                                       !.lorePost = lorePost,
                                       !.committed = Some(committed),
                                       !.narrationText = Some(narrationText)]
            IN Returned(persistTurnFinalState(db1, input, persistedCheckpoint),
                        persistedCheckpoint, FALSE)

(* postJson without the test of response.ok.                                *)
postJsonAnyStatus(failed) == [thrown |-> FALSE]

(* The module client: a call throws on a timeout, a network error, a status *)
(* that is not ok, or an output that its schema rejects.                    *)
postJson(failed) == [thrown |-> failed]

(* The request that the stage proser sends to its module.                   *)
proserRequest(input, checkpoint) ==
    [committed |-> OrElse(checkpoint.committed,
                          arbiterCommit(input.turn, Get(checkpoint.proposal))),
     lore |-> checkpoint.loreRetrieval,
     lorePost |-> OrElse(checkpoint.lorePost, buildFallbackLorePost)]

(* runStage: resp holds the modules' outputs and failed says that the call *)
(* this stage makes fails.                                                 *)
runStage(db, input, stage, checkpoint, resp, failed) ==
    IF shouldSkipStage(stage, checkpoint)
    THEN Returned(appendStepEvent(db, input, stage, "skipped"), checkpoint, FALSE)
    ELSE IF stage = "world_state_update"
    THEN runWorldStateUpdate(db, input, checkpoint)
    ELSE IF stage = "proser" /\ ~IsSome(checkpoint.committed) /\ ~IsSome(checkpoint.proposal)
    THEN Thrown(db, checkpoint, FALSE)
    ELSE IF postJson(failed).thrown
    THEN Thrown(db, checkpoint, TRUE)
    ELSE LET db1 == appendStepEvent(db, input, stage, "ok") IN
    CASE stage = "intent_extractor" ->
           Returned(db1,
               [checkpoint EXCEPT
                   !.intent = Some(resp.intent),
                   !.refusalReason =
                       IF IsSome(deriveRefusalReasonFromIntent(resp.intent))
                       THEN deriveRefusalReasonFromIntent(resp.intent)
                       ELSE checkpoint.refusalReason,
                   !.llmConversations = @ \cup {"intent_extractor"}],
               TRUE)
      [] stage = "loremaster_retrieve" ->
           Returned(db1, [checkpoint EXCEPT !.loreRetrieval = Some(LoreRetrievalOutput)], TRUE)
      [] stage = "loremaster_pre" ->
           LET refusalReason ==
                   deriveRefusalReasonFromLoremaster(Get(checkpoint.intent), resp.pre)
           IN Returned(db1,
                  [checkpoint EXCEPT
                      !.loremasterPre = Some(resp.pre),
                      !.refusalReason = refusalReason,
                      !.warnings =
                          IF IsSome(refusalReason)
                          THEN Append(@, <<"turn_refused: ">> \o Get(refusalReason))
                          ELSE @,
                      !.llmConversations = @ \cup {"loremaster_pre"}],
                  TRUE)
      [] stage = "default_simulator" ->
           Returned(db1,
               [checkpoint EXCEPT !.proposal = Some(SimProposal),
                                  !.llmConversations = @ \cup {"default_simulator"}],
               TRUE)
      [] stage = "loremaster_post" ->
           Returned(db1,
               [checkpoint EXCEPT !.lorePost = Some(LorePostOutput),
                                  !.llmConversations = @ \cup {"loremaster_post"}],
               TRUE)
      [] stage = "arbiter" ->
           Returned(db1,
               [checkpoint EXCEPT
                   !.proposal = Some(resp.arbiter.selectedProposal),
                   !.committed = Some(arbiterCommit(input.turn, resp.arbiter.selectedProposal)),
                   !.arbiterDecision = Some(resp.arbiter),
                   !.llmConversations = @ \cup {"arbiter"}],
               TRUE)
      [] stage = "proser" ->
           LET committedForProser == proserRequest(input, checkpoint).committed
           IN Returned(db1,
                  [checkpoint EXCEPT !.committed = Some(committedForProser),
                                     !.narrationText = Some(NARRATION),
                                     !.llmConversations = @ \cup {"proser"}],
                  TRUE)

RECURSIVE RunStages(_, _, _, _, _, _)
(* One iteration of the loop, r being what runStage returned or threw.     *)
AfterStage(r, input, checkpoint, i, resp, calls) ==
    IF ~r.ok
    THEN [ok |-> FALSE, db |-> r.db, checkpoint |-> checkpoint,
          calls |-> IF r.called THEN Append(calls, STAGE_ORDER[i]) ELSE calls,
          failedStage |-> i]
    ELSE RunStages(r.db, input, r.checkpoint, i + 1, resp,
                   IF r.called THEN Append(calls, STAGE_ORDER[i]) ELSE calls)

(* for (const stage of STAGE_ORDER) checkpoint = await runStage(...)       *)
RunStages(db, input, checkpoint, i, resp, calls) ==
    IF i > Len(STAGE_ORDER)
    THEN [ok |-> TRUE, db |-> db, checkpoint |-> checkpoint, calls |-> calls, failedStage |-> 0]
    ELSE AfterStage(runStage(db, input, STAGE_ORDER[i], checkpoint, resp, resp.failAt = i),
                    input, checkpoint, i, resp, calls)

(* processTurnViaRouter up to the first module call: the player input, the *)
(* frontend_input step event and the execution row.                        *)
recordTurnStart(db, input) ==
    LET db1 == ensurePlayerInputRecorded(db, input)
        db2 == appendStepEvent(db1, input, "frontend_input", "ok")
        created == createTurnExecution(db2, input, "normal", emptyCheckpoint)
    IN IF created.ok THEN created ELSE [ok |-> FALSE, db |-> db2]

(* processTurnViaRouter from the first module call on: the loop over the   *)
(* stages and the update that completes the execution row.                 *)
runTurnStages(db, input, resp) ==
    LET run == RunStages(db, input, emptyCheckpoint, 1, resp, <<>>)
    IN IF ~run.ok THEN run
       ELSE [run EXCEPT !.db = updateTurnExecutionProgress(
                                   run.db, input.turn, Len(STAGE_ORDER),
                                   run.checkpoint, TRUE)]

processTurnViaRouter(db, input, resp) ==
    LET recorded == recordTurnStart(db, input)
    IN IF ~recorded.ok
       THEN [ok |-> FALSE, db |-> recorded.db, checkpoint |-> emptyCheckpoint,
             calls |-> <<>>, failedStage |-> 0]
       ELSE runTurnStages(recorded.db, input, resp)

(* startTurnStepExecution that starts the turn over when its execution is   *)
(* still running: it records the start again and replaces the row.          *)
startTurnStepExecutionRestarting(db, input) ==
    LET existing == getTurnExecutionState(db, input.turn) IN
    IF IsSome(existing) /\ Get(existing).completed
    THEN [ok |-> FALSE, db |-> db, state |-> None]
    ELSE LET db1 == ensurePlayerInputRecorded(db, input)
             db2 == appendStepEvent(db1, input, "frontend_input", "ok")
             created == createTurnExecution(
                            [db2 EXCEPT !.exec = [t \in DOMAIN db2.exec \ {input.turn} |->
                                                    db2.exec[t]]],
                            input, "step", emptyCheckpoint)
         IN [ok |-> TRUE, db |-> created.db,
             state |-> getTurnExecutionState(created.db, input.turn)]

(* state is the execution that the call returns; None when it throws.       *)
startTurnStepExecution(db, input) ==
    LET existing == getTurnExecutionState(db, input.turn) IN
    IF IsSome(existing) /\ ~Get(existing).completed
    THEN [ok |-> TRUE, db |-> db, state |-> existing]
    ELSE IF IsSome(existing) /\ Get(existing).completed
    THEN [ok |-> FALSE, db |-> db, state |-> None]
    ELSE LET db1 == ensurePlayerInputRecorded(db, input)
             db2 == appendStepEvent(db1, input, "frontend_input", "ok")
             created == createTurnExecution(db2, input, "step", emptyCheckpoint)
         IN IF created.ok
            THEN [ok |-> TRUE, db |-> created.db,
                  state |-> getTurnExecutionState(created.db, input.turn)]
            ELSE [ok |-> FALSE, db |-> db2, state |-> None]

(* advanceStage that never marks the execution row completed.               *)
advanceStageNeverCompleting(db, input, execution, checkpoint, stage, resp, failed) ==
    LET r == runStage(db, input, stage, checkpoint, resp, failed)
        calls == IF r.called THEN <<stage>> ELSE <<>>
        nextDb == updateTurnExecutionProgress(
                      r.db, input.turn, execution.cursor + 1, r.checkpoint, FALSE)
    IN IF ~r.ok
       THEN [ok |-> FALSE, db |-> r.db, calls |-> calls,
             failedStage |-> execution.cursor + 1, executed |-> FALSE,
             state |-> None, result |-> None]
       ELSE [ok |-> TRUE, db |-> nextDb,
             calls |-> calls, failedStage |-> 0, executed |-> TRUE,
             state |-> getTurnExecutionState(nextDb, input.turn),
             result |-> None]

(* advanceStage that moves the cursor on although the stage threw.          *)
advanceStageRecordingFailure(db, input, execution, checkpoint, stage, resp, failed) ==
    LET r == runStage(db, input, stage, checkpoint, resp, failed)
        calls == IF r.called THEN <<stage>> ELSE <<>>
        completed == stage = "world_state_update"
        nextDb == updateTurnExecutionProgress(
                      r.db, input.turn, execution.cursor + 1, r.checkpoint, completed)
    IN IF ~r.ok
       THEN [ok |-> FALSE, db |-> nextDb, calls |-> calls,
             failedStage |-> execution.cursor + 1, executed |-> FALSE,
             state |-> None, result |-> None]
       ELSE [ok |-> TRUE, db |-> nextDb,
             calls |-> calls, failedStage |-> 0, executed |-> TRUE,
             state |-> getTurnExecutionState(nextDb, input.turn),
             result |-> IF completed
                        THEN Some(buildTurnTracePayload(
                                 r.checkpoint, listPipelineEvents(nextDb, input.turn)))
                        ELSE None]

(* advanceTurnStepExecution from the module call of the stage on: db is the *)
(* store at the time of the answer, execution and checkpoint are what the  *)
(* call read from the store before the module was called.                  *)
advanceStage(db, input, execution, checkpoint, stage, resp, failed) ==
    LET r == runStage(db, input, stage, checkpoint, resp, failed)
        calls == IF r.called THEN <<stage>> ELSE <<>>
        completed == stage = "world_state_update"
        nextDb == updateTurnExecutionProgress(
                      r.db, input.turn, execution.cursor + 1, r.checkpoint, completed)
    IN IF ~r.ok
       THEN [ok |-> FALSE, db |-> r.db, calls |-> calls,
             failedStage |-> execution.cursor + 1, executed |-> FALSE,
             state |-> None, result |-> None]
       ELSE [ok |-> TRUE, db |-> nextDb,
             calls |-> calls, failedStage |-> 0, executed |-> TRUE,
             state |-> getTurnExecutionState(nextDb, input.turn),
             result |-> IF completed
                        THEN Some(buildTurnTracePayload(
                                 r.checkpoint, listPipelineEvents(nextDb, input.turn)))
                        ELSE None]

advanceTurnStepExecution(db, input, resp, failed) ==
    LET execution == getTurnExecutionState(db, input.turn) IN
    IF ~IsSome(execution)
    THEN [ok |-> FALSE, db |-> db, calls |-> <<>>, failedStage |-> 0, executed |-> FALSE,
          state |-> None, result |-> None]
    ELSE IF Get(execution).completed
    THEN LET pipelineEvents == listPipelineEvents(db, input.turn)
             stored == parseCheckpoint(readTurnExecutionCheckpoint(db, input.turn))
         IN [ok |-> TRUE, db |-> db, calls |-> <<>>, failedStage |-> 0, executed |-> FALSE,
             state |-> execution,
             result |-> IF IsSome(stored.committed)
                        THEN Some(buildTurnTracePayload(stored, pipelineEvents))
                        ELSE None]
    ELSE LET stage == resolveStageFromCursor(Get(execution).cursor) IN
    IF ~IsSome(stage)
    THEN [ok |-> FALSE, db |-> db, calls |-> <<>>, failedStage |-> 0, executed |-> FALSE,
          state |-> None, result |-> None]
    ELSE advanceStage(db, input, Get(execution),
                      parseCheckpoint(readTurnExecutionCheckpoint(db, input.turn)),
                      Get(stage), resp, failed)

-----------------------------------------------------------------------------
(* The module URLs.  A string is a string of TLA+, read one character at a  *)
(* time; a binding or a variable that is not there is None.                *)

ModuleRoles == {"intent", "loremaster", "simulator", "arbiter", "proser"}

(* The key of manifest.moduleBindings that resolveModuleUrls reads for a role. *)
BindingKey ==
    [role \in ModuleRoles |->
        CASE role = "intent" -> "intent_extractor"
          [] role = "loremaster" -> "loremaster"
          [] role = "simulator" -> "default_simulator"
          [] role = "arbiter" -> "arbiter"
          [] OTHER -> "proser"]

BindingKeys == {BindingKey[role] : role \in ModuleRoles} \cup {"lore_retriever"}

EnvironmentVariables ==
    {"MODULE_INTENT_URL", "MODULE_LOREMASTER_URL", "MODULE_DEFAULT_SIMULATOR_URL",
     "MODULE_ARBITER_URL", "MODULE_PROSER_URL"}

(* The manifest of the game project and a process started with no variable. *)
DefaultBindings ==
    [key \in BindingKeys |-> IF key = "lore_retriever" THEN Some("data.default")
                                                       ELSE Some("llm.default")]

NoEnvironment == [name \in EnvironmentVariables |-> None]

(* The flag i of the regular expression: the letters it names, in lower case. *)
lowerCase(c) ==
    CASE c = "H" -> "h"
      [] c = "T" -> "t"
      [] c = "P" -> "p"
      [] c = "S" -> "s"
      [] OTHER -> c

(* The character of s at i is c, whatever its case.                         *)
CharAt(s, i, c) == i <= Len(s) /\ lowerCase(SubSeq(s, i, i)) = c

(* /^https?:\/\//i.test(s)                                                   *)
testHttpPrefix(s) ==
    /\ CharAt(s, 1, "h") /\ CharAt(s, 2, "t") /\ CharAt(s, 3, "t") /\ CharAt(s, 4, "p")
    /\ \E rest \in {5, 6} :
          /\ rest = 6 => CharAt(s, 5, "s")
          /\ CharAt(s, rest, ":") /\ CharAt(s, rest + 1, "/") /\ CharAt(s, rest + 2, "/")

(* getDefaultUrl without the variables of the environment.                  *)
getDefaultUrlNoEnvironment(role, env) ==
    CASE role = "intent" -> "http://localhost:8791"
      [] role = "loremaster" -> "http://localhost:8792"
      [] role = "simulator" -> "http://localhost:8793"
      [] role = "arbiter" -> "http://localhost:8795"
      [] OTHER -> "http://localhost:8794"

(* getDefaultUrl: process.env.X ?? default, so a variable set to the empty  *)
(* string is used as it is.                                                *)
getDefaultUrl(role, env) ==
    CASE role = "intent" -> OrElse(env["MODULE_INTENT_URL"], "http://localhost:8791")
      [] role = "loremaster" -> OrElse(env["MODULE_LOREMASTER_URL"], "http://localhost:8792")
      [] role = "simulator" -> OrElse(env["MODULE_DEFAULT_SIMULATOR_URL"], "http://localhost:8793")
      [] role = "arbiter" -> OrElse(env["MODULE_ARBITER_URL"], "http://localhost:8795")
      [] OTHER -> OrElse(env["MODULE_PROSER_URL"], "http://localhost:8794")

(* resolveUrlForBinding: an undefined or empty binding is falsy.            *)
resolveUrlForBinding(role, binding, env) ==
    IF IsSome(binding) /\ Get(binding) # "" /\ testHttpPrefix(Get(binding))
    THEN Get(binding)
    ELSE getDefaultUrl(role, env)

resolveModuleUrls(bindings, env) ==
    [intent |-> resolveUrlForBinding("intent", bindings["intent_extractor"], env),
     loremaster |-> resolveUrlForBinding("loremaster", bindings["loremaster"], env),
     simulator |-> resolveUrlForBinding("simulator", bindings["default_simulator"], env),
     arbiter |-> resolveUrlForBinding("arbiter", bindings["arbiter"], env),
     proser |-> resolveUrlForBinding("proser", bindings["proser"], env)]

-----------------------------------------------------------------------------
(* The API.  A handler maps the store and a request to the response and    *)
(* the store it leaves; entered says that the request passed the checks of *)
(* the endpoint and was handed to the pipeline driver.                     *)

(* Requests name a turn: 0 is rejected as invalid, the others are in or    *)
(* out of sequence.                                                        *)
RequestTurns == 0..(MaxTurn + 1)

Response(op, turn, status, code, db) ==
    [op |-> op, turn |-> turn, status |-> status, code |-> code, db |-> db,
     expectedTurn |-> 0, receivedTurn |-> 0, activeTurn |-> 0,
     calls |-> <<>>, failedStage |-> 0,
     entered |-> FALSE]

(* SELECT turn FROM turn_execution WHERE completed = 0 ORDER BY turn LIMIT 1 *)
ActiveExecution(db) ==
    LET active == {t \in DOMAIN db.exec : ~db.exec[t].completed} IN
    IF active = {} THEN 0
    ELSE CHOOSE t \in active : \A u \in active : t <= u

(* POST /turn; found is resolveRunLocation(runId) # null                   *)
PostTurnHandler(db, found, turn, playerInput, resp) ==
    LET input == [turn |-> turn, playerInput |-> playerInput, playerId |-> PlayerId]
        expectedTurn == ExpectedTurn(db)
    IN
    IF turn < 1
    THEN Response("turn", turn, 400, "INVALID_TURN_INDEX", db)
    ELSE IF ~found
    THEN Response("turn", turn, 404, "RUN_NOT_FOUND", db)
    ELSE IF turn # expectedTurn
    THEN [Response("turn", turn, 409, "TURN_SEQUENCE_CONFLICT", db)
             EXCEPT !.expectedTurn = expectedTurn, !.receivedTurn = turn]
    ELSE LET result == processTurnViaRouter(db, input, resp) IN
         [Response("turn", turn, IF result.ok THEN 200 ELSE 500,
                   IF result.ok THEN "" ELSE "TURN_PROCESSING_FAILED", result.db)
             EXCEPT !.expectedTurn = expectedTurn,
                    !.calls = result.calls,
                    !.failedStage = result.failedStage,
                    !.entered = TRUE]

(* POST /turn/step/start                                                   *)
StepStartHandler(db, found, turn, playerInput) ==
    LET input == [turn |-> turn, playerInput |-> playerInput, playerId |-> PlayerId]
        expectedTurn == ExpectedTurn(db)
        activeTurn == ActiveExecution(db)
    IN
    IF turn < 1
    THEN Response("step_start", turn, 400, "INVALID_TURN_INDEX", db)
    ELSE IF ~found
    THEN Response("step_start", turn, 404, "RUN_NOT_FOUND", db)
    ELSE IF turn # expectedTurn
    THEN [Response("step_start", turn, 409, "TURN_SEQUENCE_CONFLICT", db)
             EXCEPT !.expectedTurn = expectedTurn, !.receivedTurn = turn]
    ELSE IF activeTurn # 0 /\ activeTurn # turn
    THEN [Response("step_start", turn, 409, "STEP_EXECUTION_CONFLICT", db)
             EXCEPT !.expectedTurn = expectedTurn, !.activeTurn = activeTurn]
    ELSE LET result == startTurnStepExecution(db, input) IN
         [Response("step_start", turn, IF result.ok THEN 200 ELSE 500,
                   IF result.ok THEN "" ELSE "STEP_START_FAILED", result.db)
             EXCEPT !.expectedTurn = expectedTurn, !.entered = TRUE]

(* POST /turn/step/next                                                    *)
StepNextHandler(db, found, turn, resp) ==
    IF ~found
    THEN Response("step_next", turn, 404, "RUN_NOT_FOUND", db)
    ELSE LET execution == getTurnExecutionState(db, turn) IN
    IF ~IsSome(execution)
    THEN Response("step_next", turn, 404, "STEP_EXECUTION_NOT_FOUND", db)
    ELSE LET input == [turn |-> turn, playerInput |-> Get(execution).playerInput,
                       playerId |-> PlayerId]
             result == advanceTurnStepExecution(db, input, resp,
                           resp.failAt = Get(execution).cursor + 1)
         IN [Response("step_next", turn, IF result.ok THEN 200 ELSE 500,
                      IF result.ok THEN "" ELSE "STEP_NEXT_FAILED", result.db)
                EXCEPT !.calls = result.calls,
                       !.failedStage = result.failedStage,
                       !.entered = TRUE]

(* The JSON bodies of the requests.  A field that the body lacks is None; a *)
(* turn is a JSON value: an integer, a number that is no integer, a string. *)
JsonInteger(n) == [type |-> "number", integer |-> TRUE, value |-> n]

TurnValues ==
    {None, Some([type |-> "number", integer |-> FALSE, value |-> 1]),
     Some([type |-> "string", integer |-> FALSE, value |-> 1])}
        \cup {Some(JsonInteger(n)) : n \in RequestTurns}

Bodies ==
    [runId : {None, Some(""), Some(RunId), Some("run-unknown")},
     turn : TurnValues,
     playerInput : {None} \cup {Some(text) : text \in PlayerInputs},
     playerId : {None, Some(""), Some(PlayerId)}]

(* !value for a string field: undefined or the empty string.                *)
Falsy(field) == ~IsSome(field) \/ Get(field) = ""

(* Number.isInteger(turn)                                                   *)
isInteger(turn) == IsSome(turn) /\ Get(turn).type = "number" /\ Get(turn).integer

(* resolveRunLocation(runId) # null: the folder of the run holds its store. *)
RunFound(exists, body) == exists /\ body.runId = Some(RunId)

(* POST /turn that records the player input before it checks the sequence.  *)
PostTurnRouteRecordingFirst(db, exists, body, resp) ==
    IF Falsy(body.runId) \/ ~IsSome(body.playerInput) \/ Falsy(body.playerId)
           \/ ~isInteger(body.turn)
    THEN Response("turn", 0, 400, "BAD_TURN_REQUEST", db)
    ELSE LET r == PostTurnHandler(db, RunFound(exists, body), Get(body.turn).value,
                                  Get(body.playerInput), resp)
         IN IF r.status = 409
            THEN [r EXCEPT !.db = ensurePlayerInputRecorded(
                                      db, [turn |-> r.turn,
                                           playerInput |-> Get(body.playerInput),
                                           playerId |-> PlayerId])]
            ELSE r

(* POST /turn from the body of the request on.                              *)
PostTurnRoute(db, exists, body, resp) ==
    IF Falsy(body.runId) \/ ~IsSome(body.playerInput) \/ Falsy(body.playerId)
           \/ ~isInteger(body.turn)
    THEN Response("turn", 0, 400, "BAD_TURN_REQUEST", db)
    ELSE PostTurnHandler(db, RunFound(exists, body), Get(body.turn).value,
                         Get(body.playerInput), resp)

(* POST /turn/step/start from the body of the request on.                   *)
StepStartRoute(db, exists, body) ==
    IF Falsy(body.runId) \/ ~IsSome(body.playerInput) \/ Falsy(body.playerId)
           \/ ~isInteger(body.turn)
    THEN Response("step_start", 0, 400, "BAD_STEP_START_REQUEST", db)
    ELSE StepStartHandler(db, RunFound(exists, body), Get(body.turn).value,
                          Get(body.playerInput))

(* POST /turn/step/next from the body of the request on: it reads runId and *)
(* turn only.                                                               *)
StepNextRoute(db, exists, body, resp) ==
    IF Falsy(body.runId) \/ ~isInteger(body.turn)
    THEN Response("step_next", 0, 400, "BAD_STEP_NEXT_REQUEST", db)
    ELSE StepNextHandler(db, RunFound(exists, body), Get(body.turn).value, resp)

(* db.close() put after the body of the try block: it runs only when the    *)
(* body runs to its end.                                                    *)
closeAfterBody(exit) == IF exit = "end" THEN <<"close">> ELSE <<>>

(* try { ... } finally { await db.close() }: the handle is closed however   *)
(* the body is left, by its end, by a return or by a throw.                 *)
closeInFinally(exit) == <<"close">>

(* The opens and closes of run-store handles on the path of a handler of    *)
(* POST /turn, /turn/step/start or /turn/step/next that ended with the      *)
(* response r.  A request rejected for its fields or its run opens nothing; *)
(* an answered step start reads the pipeline state through a handle of its  *)
(* own (readPipelineState).                                                 *)
HandleTrace(r) ==
    IF r.status = 400 \/ r.code = "RUN_NOT_FOUND" THEN <<>>
    ELSE LET exit == IF r.status \in {404, 409} THEN "return"
                     ELSE IF r.status = 500 THEN "throw"
                     ELSE "end"
             readPipeline == IF r.op = "step_start" /\ r.status = 200
                             THEN <<"open">> \o closeInFinally("end")
                             ELSE <<>>
         IN <<"open">> \o readPipeline \o closeInFinally(exit)

(* GET /run/:runId/state: the answer and the store the request leaves.      *)
GetStateHandler(db, found) ==
    IF ~found
    THEN [status |-> 404, db |-> db, body |-> None]
    ELSE [status |-> 200, db |-> openRunStore(db),
          body |-> Some(readSessionState(openRunStore(db)))]

(* GET /run/:runId/turn/:turn/pipeline                                      *)
GetPipelineHandler(db, found, turn) ==
    IF turn < 1
    THEN [status |-> 400, db |-> db, body |-> None]
    ELSE IF ~found
    THEN [status |-> 404, db |-> db, body |-> None]
    ELSE [status |-> 200, db |-> openRunStore(db),
          body |-> Some(readPipelineState(openRunStore(db), turn))]

(* The bounds: a request may fail and leave rows behind while fewer than   *)
(* MaxFailures requests have, and each of these failures costs the run one  *)
(* of its MaxTurn turns.                                                    *)
MayFail(turn) == failures < MaxFailures /\ turn < MaxTurn - failures

MayRun(turn) == turn <= MaxTurn - failures

(* The answers that a request can get to read.  A request that the bounds  *)
(* leave out gets no answers that would only be discarded.                  *)
PostTurnResponses(db, turn) ==
    IF turn = ExpectedTurn(db) /\ turn \notin DOMAIN db.exec /\ MayRun(turn)
    THEN IF MayFail(turn) THEN Responses
         ELSE {r \in Responses : r.failAt = 0}
    ELSE StageResponses(0)

StepNextResponses(db, turn) ==
    IF turn \in DOMAIN db.exec THEN StageResponses(db.exec[turn].cursor + 1)
    ELSE StageResponses(0)

-----------------------------------------------------------------------------
(* The state machine.                                                      *)

(* A request that reaches the pipeline driver takes effect: the store is   *)
(* as the handler left it.  A request rejected before that (400, 404, 409) *)
(* writes nothing and is no step.                                           *)
Apply(r) ==
    /\ r.entered
    /\ MayRun(r.turn)
    /\ (r.status = 500 /\ r.db # Store) => MayFail(r.turn)
    /\ events' = r.db.events
    /\ snapshots' = r.db.snapshots
    /\ pipeline' = r.db.pipeline
    /\ exec' = r.db.exec
    /\ failures' = IF r.status = 500 /\ r.db # Store THEN failures + 1 ELSE failures
    /\ UNCHANGED <<started, inflight, begun, registry>>

Init ==
    /\ started = FALSE
    /\ events = <<>>
    /\ snapshots = <<>>
    /\ pipeline = <<>>
    /\ exec = <<>>
    /\ failures = 0
    /\ inflight = <<>>
    /\ begun = 0
    /\ moduleBindings = DefaultBindings
    /\ environment = NoEnvironment
    /\ moduleUrls = None

(* POST /run/start -> initializeRunStore                                   *)
RunStart ==
    /\ ~started
    /\ started' = TRUE
    /\ snapshots' = initializeRunStore(Store).snapshots
    /\ UNCHANGED <<events, pipeline, exec, failures, inflight, begun, registry>>

PostTurn ==
    \E turn \in RequestTurns, playerInput \in PlayerInputs :
        \E resp \in PostTurnResponses(Store, turn) :
            Apply(PostTurnHandler(Store, started, turn, playerInput, resp))

StepStart ==
    \E turn \in RequestTurns :
        \E playerInput \in PlayerInputs :
            Apply(StepStartHandler(Store, started, turn, playerInput))

StepNext ==
    \E turn \in RequestTurns :
        \E resp \in StepNextResponses(Store, turn) :
            Apply(StepNextHandler(Store, started, turn, resp))

(* A read request that was answered leaves the store as its handler did.   *)
Read(r) ==
    /\ r.status = 200
    /\ events' = r.db.events
    /\ snapshots' = r.db.snapshots
    /\ pipeline' = r.db.pipeline
    /\ exec' = r.db.exec
    /\ UNCHANGED <<started, failures, inflight, begun, registry>>

GetState == Read(GetStateHandler(Store, started))

GetPipeline ==
    \E turn \in RequestTurns : Read(GetPipelineHandler(Store, started, turn))

Next ==
    \/ RunStart
    \/ PostTurn
    \/ StepStart
    \/ StepNext
    \/ GetState
    \/ GetPipeline

Spec == Init /\ [][Next]_vars

(* A POST /turn/step/next of a turn that is not completed, whose module     *)
(* answers with its usual valid output.  The client of a step execution     *)
(* keeps sending it and the module services answer in the end.              *)
StepNextAnswered ==
    \E turn \in {t \in DOMAIN exec : ~exec[t].completed} :
        Apply(StepNextHandler(Store, started, turn,
                  [intent |-> DefaultIntent, pre |-> DefaultPre,
                   arbiter |-> DefaultArbiter, failAt |-> 0]))

(* ENABLED <<StepNextAnswered>>_vars, written as a predicate of the state:  *)
(* Apply takes the request and the store is not as it was.                  *)
StepNextAnswerable ==
    \E turn \in {t \in DOMAIN exec : ~exec[t].completed} :
        \A r \in {StepNextHandler(Store, started, turn,
                       [intent |-> DefaultIntent, pre |-> DefaultPre,
                        arbiter |-> DefaultArbiter, failAt |-> 0])} :
            /\ r.entered
            /\ MayRun(turn)
            /\ r.db # Store
            /\ r.status = 500 => MayFail(turn)

(* Weak fairness of StepNextAnswered, WF_vars(StepNextAnswered), with its    *)
(* enabling condition written out.                                           *)
SpecLive ==
    /\ Init
    /\ [][Next]_vars
    /\ ([]<>(~StepNextAnswerable) \/ []<><<StepNextAnswered>>_vars)

-----------------------------------------------------------------------------
(* Overlapping requests.  Each request has its own connection to the store  *)
(* and nothing orders the requests of a run: while one request awaits the   *)
(* answer of a module, the server handles the others.  A request in flight  *)
(* is one that has called a module and awaits its answer; inflight holds,   *)
(* for each of them, what it read from the store before the call.  The      *)
(* statements of a request between two module calls are taken as one step.  *)

(* Whether runStage calls a module for the stage.                           *)
CallsModule(stage, checkpoint) ==
    /\ ~shouldSkipStage(stage, checkpoint)
    /\ stage # "world_state_update"
    /\ stage = "proser" => (IsSome(checkpoint.committed) \/ IsSome(checkpoint.proposal))

Remove(seq, k) == SubSeq(seq, 1, k - 1) \o SubSeq(seq, k + 1, Len(seq))

SetStore(db) ==
    /\ events' = db.events
    /\ snapshots' = db.snapshots
    /\ pipeline' = db.pipeline
    /\ exec' = db.exec

(* The requests of Spec that overlap with the requests in flight: a step    *)
(* start, and a step whose module answers before another request is         *)
(* handled.                                                                 *)
OverlapStepStart ==
    \E turn \in 1..MaxOverlapTurn :
        \E playerInput \in PlayerInputs :
            Apply(StepStartHandler(Store, started, turn, playerInput))

OverlapStepNext ==
    \E turn \in 1..MaxOverlapTurn :
        \E resp \in StageResponses(0) :
            Apply(StepNextHandler(Store, started, turn, resp))

(* POST /turn/step/next up to the module call of the stage at the cursor.   *)
StepNextCall ==
    \E turn \in 1..MaxOverlapTurn :
        /\ started
        /\ begun < MaxBegun
        /\ IsSome(getTurnExecutionState(Store, turn))
        /\ LET execution == Get(getTurnExecutionState(Store, turn))
               stage == resolveStageFromCursor(execution.cursor)
               checkpoint == parseCheckpoint(readTurnExecutionCheckpoint(Store, turn))
           IN /\ ~execution.completed
              /\ IsSome(stage)
              /\ CallsModule(Get(stage), checkpoint)
              /\ inflight' = Append(inflight,
                     [op |-> "step_next",
                      input |-> [turn |-> turn, playerInput |-> execution.playerInput,
                                 playerId |-> PlayerId],
                      execution |-> execution,
                      checkpoint |-> checkpoint])
        /\ begun' = begun + 1
        /\ UNCHANGED <<started, events, snapshots, pipeline, exec, failures, registry>>

(* The module answers: the rest of advanceTurnStepExecution.                *)
StepNextAnswer ==
    \E k \in 1..Len(inflight) :
        /\ inflight[k].op = "step_next"
        /\ \E resp \in {r \in StageResponses(inflight[k].execution.cursor + 1) : r.failAt = 0} :
              SetStore(advanceStage(Store, inflight[k].input, inflight[k].execution,
                                    inflight[k].checkpoint,
                                    STAGE_ORDER[inflight[k].execution.cursor + 1],
                                    resp, FALSE).db)
        /\ inflight' = Remove(inflight, k)
        /\ UNCHANGED <<started, failures, begun, registry>>

(* POST /turn up to the call of intent_extractor; a request that finds the  *)
(* execution row of the turn already there fails at once.                  *)
PostTurnCall ==
    \E turn \in 1..MaxOverlapTurn, playerInput \in PlayerInputs :
        /\ started
        /\ begun < MaxBegun
        /\ MayRun(turn)
        /\ turn = ExpectedTurn(Store)
        /\ LET input == [turn |-> turn, playerInput |-> playerInput, playerId |-> PlayerId]
               b == recordTurnStart(Store, input)
           IN /\ SetStore(b.db)
              /\ IF b.ok
                 THEN /\ inflight' = Append(inflight,
                             [op |-> "turn", input |-> input,
                              execution |-> Get(getTurnExecutionState(b.db, turn)),
                              checkpoint |-> emptyCheckpoint])
                      /\ failures' = failures
                 ELSE /\ failures < MaxFailures
                      /\ inflight' = inflight
                      /\ failures' = failures + 1
        /\ begun' = begun + 1
        /\ UNCHANGED <<started, registry>>

(* The modules answer: the rest of processTurnViaRouter.                    *)
PostTurnAnswer ==
    \E k \in 1..Len(inflight) :
        /\ inflight[k].op = "turn"
        /\ \E resp \in StageResponses(1) \cup StageResponses(3) :
              resp.failAt = 0 /\ SetStore(runTurnStages(Store, inflight[k].input, resp).db)
        /\ inflight' = Remove(inflight, k)
        /\ UNCHANGED <<started, failures, begun, registry>>

OverlapNext ==
    \/ RunStart
    \/ OverlapStepStart
    \/ OverlapStepNext
    \/ StepNextCall
    \/ StepNextAnswer
    \/ PostTurnCall
    \/ PostTurnAnswer

SpecOverlap == Init /\ [][OverlapNext]_vars

-----------------------------------------------------------------------------
(* The registry alone: a manifest and an environment, and runStage asking  *)
(* for the URLs of the modules.                                            *)

ManifestBindings == {None, Some("llm.default"), Some("HTTPS://modules.local")}

EnvironmentValues == {None, Some("http://env.local:9000")}

InitRegistry ==
    /\ started = FALSE
    /\ events = <<>>
    /\ snapshots = <<>>
    /\ pipeline = <<>>
    /\ exec = <<>>
    /\ failures = 0
    /\ inflight = <<>>
    /\ begun = 0
    /\ moduleBindings \in
          {b \in [BindingKeys -> ManifestBindings] :
              b["lore_retriever"] \in {None, Some("HTTPS://modules.local")}}
    /\ environment \in [EnvironmentVariables -> EnvironmentValues]
    /\ moduleUrls = None

(* runStage: const moduleUrls = resolveModuleUrls(input.moduleBindings)     *)
ResolveModuleUrls ==
    /\ moduleUrls' = Some(resolveModuleUrls(moduleBindings, environment))
    /\ UNCHANGED <<started, events, snapshots, pipeline, exec, failures, inflight, begun,
                   moduleBindings, environment>>

SpecRegistry == InitRegistry /\ [][ResolveModuleUrls]_vars

-----------------------------------------------------------------------------
(* Store writes that fail.  The writes of the stage world_state_update are *)
(* separate statements on a connection with no transaction around them, so  *)
(* a write that throws leaves the ones before it in the store.              *)

(* The store after the first n writes of the stage world_state_update: the  *)
(* step event, the module_trace event, the committed_diff event, the        *)
(* snapshot row.                                                            *)
runWorldStateUpdateWrites(db, input, checkpoint, n) ==
    LET refusalReason == checkpoint.refusalReason
        proposal == IF IsSome(refusalReason)
                    THEN Some(buildRefusalProposal(input, Get(refusalReason)))
                    ELSE checkpoint.proposal
        lorePost == IF IsSome(refusalReason) THEN Some(buildFallbackLorePost)
                    ELSE checkpoint.lorePost
        committed == OrElse(checkpoint.committed, arbiterCommit(input.turn, Get(proposal)))
        narrationText == IF IsSome(refusalReason) THEN Get(refusalReason)
                         ELSE OrElse(checkpoint.narrationText, <<>>)
        persistedCheckpoint ==
            [checkpoint EXCEPT !.proposal = proposal,
                               !.lorePost = lorePost,
                               !.committed = Some(committed),
                               !.narrationText = Some(narrationText)]
        db1 == appendStepEvent(db, input, "world_state_update", "ok")
        trace == buildTurnTracePayload(persistedCheckpoint, listPipelineEvents(db1, input.turn))
        db2 == appendEvent(db1, input.turn, "module_trace", trace)
        db3 == appendEvent(db2, input.turn, "committed_diff", committed)
    IN IF n = 1 THEN db1
       ELSE IF n = 2 THEN db2
       ELSE IF n = 3 THEN db3
       ELSE persistTurnFinalState(db1, input, persistedCheckpoint)

(* POST /turn/step/next on the stage world_state_update: write number n + 1 *)
(* throws, the last of them being the update of the execution row.          *)
StepNextStoreFailure ==
    \E turn \in DOMAIN exec :
        \E n \in 1..4 :
            LET checkpoint == parseCheckpoint(readTurnExecutionCheckpoint(Store, turn))
                input == [turn |-> turn, playerInput |-> exec[turn].playerInput,
                          playerId |-> PlayerId]
            IN /\ started
               /\ ~exec[turn].completed
               /\ resolveStageFromCursor(exec[turn].cursor) = Some("world_state_update")
               /\ IsSome(checkpoint.committed) \/ IsSome(checkpoint.proposal)
                     \/ IsSome(checkpoint.refusalReason)
               /\ failures < MaxFailures
               /\ SetStore(runWorldStateUpdateWrites(Store, input, checkpoint, n))
               /\ failures' = failures + 1
               /\ UNCHANGED <<started, inflight, begun, registry>>

StoreFailureNext ==
    \/ Next
    \/ StepNextStoreFailure

SpecStoreFailure == Init /\ [][StoreFailureNext]_vars

-----------------------------------------------------------------------------
(* Properties.                                                             *)

SnapshotTurns == {snapshots[i].turn : i \in 1..Len(snapshots)}

TurnsOf(rows) == {rows[i].turn : i \in 1..Len(rows)}

(* C1: a turn is started by POST /turn or POST /turn/step/start only when   *)
(* it is 1 + max(snapshot.turn); any other turn >= 1 is answered 409       *)
(* TURN_SEQUENCE_CONFLICT with expectedTurn = 1 + max(snapshot.turn) and    *)
(* receivedTurn = the turn, and writes nothing.  So the only turn with rows *)
(* and no snapshot yet is 1 + max(snapshot.turn), and each snapshot row was *)
(* written for 1 + the maximum of the snapshot rows before it.              *)
C1_TurnSequencing ==
    started =>
        LET expected == 1 + Max(SnapshotTurns)
            Conflict(r, turn) ==
                /\ r.status = 409
                /\ r.code = "TURN_SEQUENCE_CONFLICT"
                /\ r.expectedTurn = expected
                /\ r.receivedTurn = turn
                /\ ~r.entered
                /\ r.db = Store
        IN /\ \A turn \in 1..(MaxTurn + 2), playerInput \in PlayerInputs :
                IF turn = expected
                THEN /\ \A resp \in StageResponses(0) :
                            PostTurnHandler(Store, started, turn, playerInput, resp).code
                                # "TURN_SEQUENCE_CONFLICT"
                     /\ StepStartHandler(Store, started, turn, playerInput).code
                            # "TURN_SEQUENCE_CONFLICT"
                ELSE /\ \A resp \in Responses :
                            Conflict(PostTurnHandler(Store, started, turn, playerInput, resp), turn)
                     /\ Conflict(StepStartHandler(Store, started, turn, playerInput), turn)
           /\ \A turn \in (TurnsOf(events) \cup TurnsOf(pipeline) \cup DOMAIN exec) \ SnapshotTurns :
                turn = expected
           /\ \A i \in 2..Len(snapshots) :
                snapshots[i].turn = 1 + Max({snapshots[j].turn : j \in 1..(i - 1)})

(* Two turns are committed, and turn 2 and turn 4 are both answered with    *)
(* the conflict that names turn 3.                                          *)
C1_Witness ==
    /\ started
    /\ Max(SnapshotTurns) = 2
    /\ \E playerInput \in PlayerInputs, resp \in Responses :
          /\ PostTurnHandler(Store, started, 2, playerInput, resp).expectedTurn = 3
          /\ PostTurnHandler(Store, started, 2, playerInput, resp).status = 409
          /\ StepStartHandler(Store, started, 4, playerInput).expectedTurn = 3
          /\ StepStartHandler(Store, started, 4, playerInput).status = 409

Count(rows, P(_)) == Len(SelectSeq(rows, P))

Committed(db, turn) ==
    [traces |-> Len(EventsOf(db, turn, "module_trace")),
     diffs |-> Len(EventsOf(db, turn, "committed_diff")),
     snapshots |-> Count(db.snapshots, LAMBDA row : row.turn = turn)]

NothingCommitted == [traces |-> 0, diffs |-> 0, snapshots |-> 0]

(* C3: a request in which the call of a module stage fails is answered 500, *)
(* and after it the turn has no module_trace event, no committed_diff event *)
(* and no snapshot row; max(snapshot.turn) and the nextTurn of the session  *)
(* state are as before the request.                                         *)
C3_FailureCommitsNothing ==
    \A turn \in 1..MaxTurn :
        LET Called(r, i) == \E k \in 1..Len(r.calls) : r.calls[k] = STAGE_ORDER[i]
            Failed(r, resp) ==
                r.entered /\ resp.failAt # 0 /\ Called(r, resp.failAt) =>
                    /\ r.status = 500
                    /\ Committed(r.db, turn) = NothingCommitted
                    /\ r.db.snapshots = snapshots
                    /\ ExpectedTurn(r.db) = ExpectedTurn(Store)
                    /\ readSessionState(r.db).nextTurn = readSessionState(Store).nextTurn
        IN /\ \A playerInput \in PlayerInputs, resp \in Responses :
                \A r \in {PostTurnHandler(Store, started, turn, playerInput, resp)} :
                    Failed(r, resp)
           /\ \A resp \in StepNextResponses(Store, turn) :
                \A r \in {StepNextHandler(Store, started, turn, resp)} : Failed(r, resp)

(* A request of turn 1 failed at its arbiter call in normal mode: the turn  *)
(* has its execution row and the pipeline events up to loremaster_post and  *)
(* nothing committed.                                                       *)
C3_Witness ==
    /\ 1 \in DOMAIN exec
    /\ exec[1].mode = "normal"
    /\ ~exec[1].completed
    /\ Len(listPipelineEvents(Store, 1)) = 6
    /\ Committed(Store, 1) = NothingCommitted

PIPELINE_STAGES == <<"frontend_input">> \o STAGE_ORDER

StagesOf(db, turn) ==
    [i \in 1..Len(listPipelineEvents(db, turn)) |-> listPipelineEvents(db, turn)[i].stage]

IsPrefix(s, t) == Len(s) <= Len(t) /\ s = SubSeq(t, 1, Len(s))

(* C4: the stages of a turn's pipeline events in stepNumber order are a     *)
(* prefix of frontend_input followed by the eight stages of STAGE_ORDER,    *)
(* and a completed turn has exactly these nine events.                      *)
C4_PipelineOrder ==
    \A turn \in TurnsOf(pipeline) :
        /\ IsPrefix(StagesOf(Store, turn), PIPELINE_STAGES)
        /\ (turn \in DOMAIN exec /\ exec[turn].completed) =>
                StagesOf(Store, turn) = PIPELINE_STAGES

(* The checkpoint stored in the execution row of a turn.                    *)
CheckpointOf(db, turn) == parseCheckpoint(readTurnExecutionCheckpoint(db, turn))

Refused(turn) == IsSome(CheckpointOf(Store, turn).refusalReason)

RefusalReason(turn) == Get(CheckpointOf(Store, turn).refusalReason)

SKIPPED_STAGES == <<"default_simulator", "loremaster_post", "arbiter", "proser">>

Payloads(db, turn, type) ==
    [i \in 1..Len(EventsOf(db, turn, type)) |-> EventsOf(db, turn, type)[i].payload]

C6_RefusalShape ==
    \A turn \in DOMAIN exec :
        exec[turn].completed /\ Refused(turn) =>
            /\ \A i \in 1..Len(Payloads(Store, turn, "committed_diff")) :
                  Payloads(Store, turn, "committed_diff")[i].operations
                      = << [op |-> "observation", scope |-> "view:player",
                            text |-> RefusalReason(turn)] >>
            /\ \A i \in 1..Len(Payloads(Store, turn, "module_trace")) :
                  /\ Payloads(Store, turn, "module_trace")[i].refusal
                        = Some([reason |-> RefusalReason(turn)])
                  /\ Payloads(Store, turn, "module_trace")[i].narrationText
                        = RefusalReason(turn)
            /\ Payloads(Store, turn, "committed_diff") # <<>>
            /\ Payloads(Store, turn, "module_trace") # <<>>

(* A refused turn is completed with the reason that the pre-check gave.     *)
C6_Witness ==
    \E turn \in DOMAIN exec :
        /\ exec[turn].completed
        /\ Refused(turn)
        /\ RefusalReason(turn) = <<"Refused: ", "No valid target is in scope.">>
        /\ Len(Payloads(Store, turn, "committed_diff")) = 1

InSeq(x, seq) == \E i \in 1..Len(seq) : seq[i] = x

LastRow(db, turn) == listPipelineEvents(db, turn)[Len(listPipelineEvents(db, turn))]

(* C7: while the checkpoint has refusalReason set, the execution of         *)
(* default_simulator, loremaster_post, arbiter or proser calls no module    *)
(* and leaves the checkpoint as it was; intent_extractor,                   *)
(* loremaster_retrieve and loremaster_pre are never skipped and each calls  *)
(* its module.                                                              *)
C7_SkippedStagesCallNothing ==
    /\ \A turn \in DOMAIN exec :
          ~exec[turn].completed =>
              LET stage == STAGE_ORDER[exec[turn].cursor + 1]
                  before == CheckpointOf(Store, turn)
              IN \A resp \in StepNextResponses(Store, turn) :
                   \A r \in {StepNextHandler(Store, started, turn, resp)} :
                      /\ (IsSome(before.refusalReason) /\ InSeq(stage, SKIPPED_STAGES)) =>
                            /\ r.calls = <<>>
                            /\ r.status = 200
                            /\ CheckpointOf(r.db, turn) = before
                            /\ LastRow(r.db, turn).stage = stage
                            /\ LastRow(r.db, turn).status = "skipped"
                      /\ exec[turn].cursor < 3 =>
                            /\ r.calls = <<stage>>
                            /\ r.status = 200 =>
                                  /\ LastRow(r.db, turn).stage = stage
                                  /\ LastRow(r.db, turn).status = "ok"
    /\ \A turn \in 1..MaxTurn, playerInput \in PlayerInputs, resp \in Responses :
          \A r \in {PostTurnHandler(Store, started, turn, playerInput, resp)} :
              r.entered /\ r.status = 200 =>
                  /\ SubSeq(r.calls, 1, 3) = SubSeq(STAGE_ORDER, 1, 3)
                  /\ IsSome(CheckpointOf(r.db, turn).refusalReason) =>
                        r.calls = SubSeq(STAGE_ORDER, 1, 3)

(* A stepped turn on the refusal path, whose intent output carried a reason *)
(* as well, has its first skipped event.                                    *)
C7_Witness ==
    \E turn \in DOMAIN exec :
        /\ ~exec[turn].completed
        /\ exec[turn].mode = "step"
        /\ exec[turn].cursor = 4
        /\ Refused(turn)
        /\ LastRow(Store, turn).status = "skipped"
        /\ IsSome(deriveRefusalReasonFromIntent(Get(CheckpointOf(Store, turn).intent)))

(* C8: a reason derived at intent_extractor is still the refusalReason      *)
(* after a loremaster_pre whose output has no assessment tagged             *)
(* no_target_in_scope, and the turn is then committed as a refusal.         *)
C8_IntentReasonSurvivesPre ==
    \A turn \in DOMAIN exec :
        LET checkpoint == CheckpointOf(Store, turn) IN
        ( /\ IsSome(checkpoint.intent)
          /\ IsSome(checkpoint.loremasterPre)
          /\ IsSome(deriveRefusalReasonFromIntent(Get(checkpoint.intent)))
          /\ \A i \in 1..Len(Get(checkpoint.loremasterPre)) :
                ~HasNoTarget(Get(checkpoint.loremasterPre)[i]) )
        => /\ checkpoint.refusalReason
                 = deriveRefusalReasonFromIntent(Get(checkpoint.intent))
           /\ exec[turn].completed =>
                 /\ exec[turn].result.narrationText = checkpoint.refusalReason
                 /\ InSeq("skipped", [i \in 1..Len(listPipelineEvents(Store, turn)) |->
                                          listPipelineEvents(Store, turn)[i].status])

HasTag(candidates, tag) ==
    \E i \in 1..Len(candidates) : tag \in candidates[i].consequenceTags

FirstWith(candidates, tag) ==
    candidates[CHOOSE i \in 1..Len(candidates) :
                  /\ tag \in candidates[i].consequenceTags
                  /\ \A j \in 1..(i - 1) : tag \notin candidates[j].consequenceTags]

(* The reason that the intent_extractor stage is said to set.               *)
StatedIntentReason(candidates) ==
    IF HasTag(candidates, "no_target_in_scope")
    THEN IF FirstWith(candidates, "no_target_in_scope").intent = ATTACK
         THEN Some(<<"Refused: no valid attack target is currently in scope.">>)
         ELSE Some(<<"Refused: no valid target is in scope for ">>
                   \o replaceUnderscores(FirstWith(candidates, "no_target_in_scope").intent)
                   \o <<".">>)
    ELSE IF HasTag(candidates, "needs_clarification")
    THEN Some(<<"Refused: action is ambiguous and cannot be safely resolved.">>)
    ELSE None

(* C9: after intent_extractor the refusalReason is the no-target sentence   *)
(* when a candidate carries no_target_in_scope, else the ambiguity sentence *)
(* when a candidate carries needs_clarification, else it is not set.        *)
C9_IntentReason ==
    \A turn \in DOMAIN exec :
        LET checkpoint == CheckpointOf(Store, turn) IN
        IsSome(checkpoint.intent) /\ ~IsSome(checkpoint.loremasterPre) =>
            checkpoint.refusalReason = StatedIntentReason(Get(checkpoint.intent))

Running == {t \in DOMAIN exec : ~exec[t].completed}

C11_StepExecutionConflict ==
    \A T \in Running :
        exec[T].mode = "step" =>
            \A playerInput \in PlayerInputs :
                \A r \in {StepStartHandler(Store, started, T + 1, playerInput)} :
                    /\ r.status = 409
                    /\ r.code = "STEP_EXECUTION_CONFLICT"
                    /\ r.activeTurn = T

ErrorRows(db, turn, stage) ==
    SelectSeq(listPipelineEvents(db, turn),
              LAMBDA row : row.stage = stage /\ row.status = "error")

(* What C12 says of a request r for turn whose module call at stage         *)
(* number failAt failed.                                                    *)
FailureLogged(r, turn, failAt) ==
    /\ r.status = 500
    /\ Len(ErrorRows(r.db, turn, STAGE_ORDER[failAt])) = 1
    /\ LastRow(r.db, turn).stage = STAGE_ORDER[failAt]
    /\ turn \in DOMAIN r.db.exec
    /\ ~r.db.exec[turn].completed

(* C12: when the module call of a stage fails, a pipeline event of that     *)
(* stage with status error is appended, the request is answered with the    *)
(* error, no later stage runs and the execution row stays not completed.    *)
C12_FailureIsLogged ==
    \A turn \in 1..MaxTurn :
        /\ \A playerInput \in PlayerInputs, resp \in PostTurnResponses(Store, turn) :
              \A r \in {PostTurnHandler(Store, started, turn, playerInput, resp)} :
                  (r.entered /\ resp.failAt # 0 /\ InSeq(STAGE_ORDER[resp.failAt], r.calls))
                      => FailureLogged(r, turn, resp.failAt)
        /\ \A resp \in StepNextResponses(Store, turn) :
              \A r \in {StepNextHandler(Store, started, turn, resp)} :
                  (r.entered /\ resp.failAt # 0 /\ InSeq(STAGE_ORDER[resp.failAt], r.calls))
                      => FailureLogged(r, turn, resp.failAt)

(* C13: after a failed request has left the execution of turn T not         *)
(* completed, a retry with the same turn is accepted: POST /turn/step/next  *)
(* runs the stage at the persisted cursor, and a new POST /turn with turn T *)
(* whose module calls succeed runs the pipeline and completes the turn.     *)
C13_RetryReusesTurn ==
    \A T \in Running :
        failures > 0 =>
            /\ \A resp \in StageResponses(0) :
                  \A r \in {StepNextHandler(Store, started, T, resp)} :
                      /\ r.status = 200
                      /\ r.db.exec[T].cursor = exec[T].cursor + 1
            /\ \A playerInput \in PlayerInputs, resp \in StageResponses(0) :
                  \A r \in {PostTurnHandler(Store, started, T, playerInput, resp)} :
                      /\ r.status = 200
                      /\ r.db.exec[T].completed

StepInput(db, turn) ==
    [turn |-> turn, playerInput |-> db.exec[turn].playerInput, playerId |-> PlayerId]

(* C14: a step start of a turn that has no execution row leaves a row with  *)
(* mode step, cursor 0, not completed, and frontend_input as the turn's     *)
(* only pipeline event; a successful advance of a turn that is not          *)
(* completed executes the stage STAGE_ORDER[cursor] and no other, appends   *)
(* one pipeline event, of that stage, and adds 1 to the cursor; it sets     *)
(* completed and returns a result exactly when the stage is the eighth,     *)
(* world_state_update.                                                      *)
C14_StepMode ==
    /\ \A turn \in 1..MaxTurn, playerInput \in PlayerInputs :
          \A r \in {StepStartHandler(Store, started, turn, playerInput)} :
              (turn \notin DOMAIN exec /\ r.entered) =>
                  /\ r.status = 200
                  /\ r.db.exec[turn].mode = "step"
                  /\ r.db.exec[turn].cursor = 0
                  /\ ~r.db.exec[turn].completed
                  /\ StagesOf(r.db, turn) = <<"frontend_input">>
    /\ \A turn \in Running :
          \A resp \in StepNextResponses(Store, turn) :
              \A a \in {advanceTurnStepExecution(Store, StepInput(Store, turn), resp,
                                                 resp.failAt = exec[turn].cursor + 1)} :
                  a.ok =>
                      LET stage == STAGE_ORDER[exec[turn].cursor + 1] IN
                      /\ a.calls \in {<<>>, <<stage>>}
                      /\ Len(a.db.pipeline) = Len(pipeline) + 1
                      /\ SubSeq(a.db.pipeline, 1, Len(pipeline)) = pipeline
                      /\ LastRow(a.db, turn).stage = stage
                      /\ a.db.exec[turn].cursor = exec[turn].cursor + 1
                      /\ a.db.exec[turn].completed = (stage = "world_state_update")
                      /\ IsSome(a.result) = (exec[turn].cursor + 1 = 8)
                      /\ Get(a.state).cursor = exec[turn].cursor + 1

(* A turn started in step mode has been advanced eight times and is         *)
(* completed, with nine pipeline events.                                    *)
C14_Witness ==
    \E turn \in DOMAIN exec :
        /\ exec[turn].mode = "step"
        /\ exec[turn].completed
        /\ exec[turn].cursor = 8
        /\ Len(StagesOf(Store, turn)) = 9

(* What C15 says of an advance a of a completed turn in the store db.       *)
NothingReExecuted(a, db, turn) ==
    /\ a.ok
    /\ a.calls = <<>>
    /\ a.db = db
    /\ a.state = getTurnExecutionState(db, turn)
    /\ IsSome(a.result)

(* C15: an advance of a turn whose execution is completed calls no module,  *)
(* leaves events, snapshots, pipeline events and the execution row as they  *)
(* are, and returns the stored execution state with a result; after an      *)
(* advance that completes a turn the next advance returns the same state    *)
(* and the same result as the completing one.                               *)
C15_AdvanceAfterCompletion ==
    /\ \A turn \in DOMAIN exec :
          exec[turn].completed =>
              \A resp \in StageResponses(0), failed \in BOOLEAN :
                  \A a \in {advanceTurnStepExecution(Store, StepInput(Store, turn), resp, failed)} :
                      /\ NothingReExecuted(a, Store, turn)
                      /\ Get(a.result) = Payloads(Store, turn, "module_trace")[1]
    /\ \A turn \in Running :
          exec[turn].cursor = 7 =>
              \A resp \in StageResponses(0) :
                  \A a \in {advanceTurnStepExecution(Store, StepInput(Store, turn), resp, FALSE)} :
                      a.ok =>
                          \A b \in {advanceTurnStepExecution(a.db, StepInput(a.db, turn), resp, FALSE)} :
                              /\ NothingReExecuted(b, a.db, turn)
                              /\ b.state = a.state
                              /\ b.result = a.result

(* A turn run step by step is completed and its last stage is about to be   *)
(* asked for again.                                                         *)
C15_Witness ==
    \E turn \in DOMAIN exec :
        /\ exec[turn].completed
        /\ exec[turn].mode = "step"
        /\ \E resp \in StageResponses(0) :
              StepNextHandler(Store, started, turn, resp).status = 200

RECURSIVE AdvanceTimes(_, _, _, _)
(* The store after n advances of the turn, each stage reading resp.         *)
AdvanceTimes(db, input, resp, n) ==
    IF n = 0 THEN db
    ELSE AdvanceTimes(advanceTurnStepExecution(db, input, resp, FALSE).db, input, resp, n - 1)

(* The store with the mode column of the execution rows left out.           *)
IgnoringMode(db) ==
    [db EXCEPT !.exec = [t \in DOMAIN db.exec |-> [db.exec[t] EXCEPT !.mode = "-"]]]

(* C16: for a turn in sequence that has no execution row, and for the same  *)
(* player input and the same module answers, a step start followed by eight *)
(* advances leaves the same events, snapshots, pipeline events (stages and  *)
(* statuses) and the same execution row, narrationText and warnings         *)
(* included, as one processTurnViaRouter call; only the mode differs.       *)
C16_StepEqualsNormal ==
    \A turn \in 1..MaxTurn, playerInput \in PlayerInputs :
        (started /\ turn = ExpectedTurn(Store) /\ turn \notin DOMAIN exec) =>
            \A resp \in {r \in Responses : r.failAt = 0} :
                LET input == [turn |-> turn, playerInput |-> playerInput, playerId |-> PlayerId]
                    normal == processTurnViaRouter(Store, input, resp)
                    stepped == AdvanceTimes(startTurnStepExecution(Store, input).db, input, resp, 8)
                IN /\ normal.ok
                   /\ normal.db.exec[turn].completed
                   /\ stepped.exec[turn].completed
                   /\ stepped.exec[turn].mode = "step"
                   /\ normal.db.exec[turn].mode = "normal"
                   /\ IgnoringMode(stepped) = IgnoringMode(normal.db)

(* Turn 1 was run step by step and turn 2 by one POST /turn, both to        *)
(* completion and with the same narration.                                  *)
C16_Witness ==
    /\ DOMAIN exec = {1, 2}
    /\ exec[1].mode = "step" /\ exec[1].completed
    /\ exec[2].mode = "normal" /\ exec[2].completed
    /\ exec[1].result.narrationText = exec[2].result.narrationText

(* The pipeline_events rows of a turn in the order of their insertion.      *)
RowsOf(db, turn) == SelectSeq(db.pipeline, LAMBDA row : row.turn = turn)

EventTypesOf(db, turn) ==
    [i \in 1..Len(SelectSeq(db.events, LAMBDA e : e.turn = turn)) |->
        SelectSeq(db.events, LAMBDA e : e.turn = turn)[i].eventType]

MessageOf(db, turn) ==
    SelectSeq(readSessionState(db).messages, LAMBDA m : m.turn = turn)

(* C20: a refused turn T whose world_state_update stage has run is          *)
(* committed: its execution row is completed, a snapshot row of turn T      *)
(* exists, the session state has one message for T whose engineText is the  *)
(* refusal sentence, and while T is the last committed turn nextTurn is     *)
(* T + 1 and a request with turn T + 1 passes the sequencing check.         *)
C20_RefusedTurnCommitted ==
    \A T \in DOMAIN exec :
        (Refused(T) /\ LastRow(Store, T).stage = "world_state_update") =>
            /\ exec[T].completed
            /\ T \in SnapshotTurns
            /\ Len(MessageOf(Store, T)) = 1
            /\ MessageOf(Store, T)[1].engineText = RefusalReason(T)
            /\ T = Max(SnapshotTurns) =>
                  /\ readSessionState(Store).nextTurn = T + 1
                  /\ \A playerInput \in PlayerInputs :
                        /\ \A r \in {StepStartHandler(Store, started, T + 1, playerInput)} :
                              r.code # "TURN_SEQUENCE_CONFLICT" /\ r.status # 400
                        /\ \A resp \in StageResponses(0) :
                              \A r \in {PostTurnHandler(Store, started, T + 1, playerInput, resp)} :
                                  r.entered

(* Turn 1 was refused and committed, and turn 2 has been accepted after it. *)
C20_Witness ==
    /\ 1 \in DOMAIN exec
    /\ exec[1].completed
    /\ Refused(1)
    /\ 2 \in DOMAIN exec

(* The turns that have at least one row in the events table.                *)
EventTurns(db) == {db.events[i].turn : i \in 1..Len(db.events)}

(* What C21 says of the entry at place i of messages and of debugEntries.   *)
EntryAsStated(state, db, i) ==
    LET turn == state.messages[i].turn
        inputs == EventsOf(db, turn, "player_input")
        traces == EventsOf(db, turn, "module_trace")
    IN /\ state.debugEntries[i].turn = turn
       /\ turn \in EventTurns(db)
       /\ i > 1 => state.messages[i - 1].turn < turn
       /\ inputs # <<>> => state.messages[i].playerText = inputs[Len(inputs)].payload.text
       /\ state.messages[i].engineText =
              IF traces = <<>> THEN <<>> ELSE traces[Len(traces)].payload.narrationText
       /\ state.debugEntries[i].trace =
              IF traces = <<>> THEN None ELSE Some(traces[Len(traces)].payload)

(* C21: readSessionState returns nextTurn = 1 + max(snapshot.turn), 1 when  *)
(* there is no snapshot; messages and debugEntries have one entry for each  *)
(* turn that has an event, in ascending turn order, with the text of the    *)
(* turn's player_input as playerText and the narrationText of the turn's    *)
(* last module_trace as engineText, empty when there is none.               *)
C21_SessionState ==
    \A state \in {readSessionState(Store)} :
        /\ state.nextTurn = IF snapshots = <<>> THEN 1 ELSE 1 + Max(SnapshotTurns)
        /\ Len(state.messages) = Cardinality(EventTurns(Store))
        /\ Len(state.debugEntries) = Cardinality(EventTurns(Store))
        /\ \A i \in 1..Len(state.messages) : EntryAsStated(state, Store, i)

(* Turn 1 is committed, with a trace, and turn 2 has its player_input only. *)
C21_Witness ==
    /\ EventTurns(Store) = {1, 2}
    /\ EventsOf(Store, 1, "module_trace") # <<>>
    /\ EventsOf(Store, 2, "module_trace") = <<>>
    /\ readSessionState(Store).nextTurn = 2

C23_AppendOnly ==
    [][/\ IsPrefix(events, events')
       /\ IsPrefix(snapshots, snapshots')
       /\ IsPrefix(pipeline, pipeline')]_vars

(* Two turns are committed: rows were added to the three tables after the   *)
(* rows of the first turn, and execution rows were rewritten.               *)
C23_Witness ==
    /\ Len(snapshots) = 3
    /\ Len(pipeline) >= 18
    /\ \A turn \in DOMAIN exec : exec[turn].completed

(* C24: requests on a run are handled one after the other, so the           *)
(* POST /turn/step/next calls of a turn run in step mode, overlapping or    *)
(* not, execute each stage at most once: the turn has at most one pipeline  *)
(* event for each stage.                                                    *)
C24_RequestsSerialized ==
    \A turn \in DOMAIN exec :
        exec[turn].mode = "step" =>
            \A i \in 1..Len(STAGE_ORDER) :
                Len(SelectSeq(RowsOf(Store, turn), LAMBDA row : row.stage = STAGE_ORDER[i])) <= 1

(* C28: in every step, overlapping requests included, the cursor of an      *)
(* execution row does not decrease, and a row that is completed stays as it *)
(* is: cursor, completed flag, checkpoint and result.                       *)
C28_CursorMonotonic ==
    [][\A turn \in DOMAIN exec :
          /\ turn \in DOMAIN exec'
          /\ exec'[turn].cursor >= exec[turn].cursor
          /\ exec[turn].completed => exec'[turn] = exec[turn]]_vars

(* C29: of the POST /turn requests for a turn, overlapping or not, one runs *)
(* the pipeline and the others add no player_input event and no pipeline    *)
(* event: a turn started by POST /turn has exactly one player_input event,  *)
(* exactly one frontend_input pipeline event, and stepNumbers 1..N.         *)
C29_OnePostTurnRuns ==
    \A turn \in DOMAIN exec :
        exec[turn].mode = "normal" =>
            /\ Len(EventsOf(Store, turn, "player_input")) = 1
            /\ Len(SelectSeq(RowsOf(Store, turn), LAMBDA row : row.stage = "frontend_input")) = 1
            /\ \A i \in 1..Len(RowsOf(Store, turn)) : RowsOf(Store, turn)[i].stepNumber = i

(* The variable of the environment that the configuration names for a role. *)
StatedVariable ==
    [role \in ModuleRoles |->
        CASE role = "intent" -> "MODULE_INTENT_URL"
          [] role = "loremaster" -> "MODULE_LOREMASTER_URL"
          [] role = "simulator" -> "MODULE_DEFAULT_SIMULATOR_URL"
          [] role = "arbiter" -> "MODULE_ARBITER_URL"
          [] OTHER -> "MODULE_PROSER_URL"]

RECURSIVE LowerCaseText(_)
LowerCaseText(s) ==
    IF Len(s) = 0 THEN s
    ELSE lowerCase(SubSeq(s, 1, 1)) \o LowerCaseText(SubSeq(s, 2, Len(s)))

(* A binding that begins with the scheme http or https and "://".           *)
IsAbsoluteHttpUrl(binding) ==
    /\ IsSome(binding)
    /\ \E scheme \in {"http://", "https://"} :
          /\ Len(scheme) <= Len(Get(binding))
          /\ LowerCaseText(SubSeq(Get(binding), 1, Len(scheme))) = scheme

(* The documented precedence: binding, variable, default.                  *)
StatedUrl(binding, value, default) ==
    IF IsAbsoluteHttpUrl(binding) THEN Get(binding)
    ELSE IF IsSome(value) THEN Get(value)
    ELSE default

(* Bindings and values beyond those of the manifests and environments drawn. *)
ProbeBindings ==
    {Some(""), Some("http://m"), Some("HtTpS://m"), Some("ftp://m"), Some("http:/m"),
     Some("xhttp://m"), Some("httpss://m")}

ProbeValues == {Some(""), Some("modules")}

(* C25: for every role, binding and environment the resolved URL is the     *)
(* binding when it is an absolute http(s) URL, else the value of the role's *)
(* variable when it is set, else the role's fixed localhost default; no     *)
(* other binding and no other variable has a part in it.                   *)
C25_UrlResolution ==
    \A role \in ModuleRoles :
        LET default == resolveUrlForBinding(role, None, NoEnvironment)
            key == BindingKey[role]
            name == StatedVariable[role]
        IN /\ SubSeq(default, 1, Len("http://localhost:")) = "http://localhost:"
           /\ \A binding \in ProbeBindings \cup {moduleBindings[key]} :
                 \A value \in ProbeValues \cup {environment[name]} :
                     resolveUrlForBinding(role, binding, [environment EXCEPT ![name] = value])
                         = StatedUrl(binding, value, default)
           /\ IsSome(moduleUrls) =>
                 Get(moduleUrls)[role]
                     = StatedUrl(moduleBindings[key], environment[name], default)

(* The three cases at once: one role resolved by its binding, one by its    *)
(* variable, one by its default.                                           *)
C25_Witness ==
    /\ IsSome(moduleUrls)
    /\ moduleBindings["intent_extractor"] = Some("HTTPS://modules.local")
    /\ IsSome(environment["MODULE_INTENT_URL"])
    /\ Get(moduleUrls).intent = "HTTPS://modules.local"
    /\ moduleBindings["arbiter"] = Some("llm.default")
    /\ Get(moduleUrls).arbiter = "http://env.local:9000"
    /\ moduleBindings["proser"] = None
    /\ environment["MODULE_PROSER_URL"] = None
    /\ Get(moduleUrls).proser = "http://localhost:8794"

RECURSIVE LoopUpTo(_, _, _, _, _, _)
(* The loop of processTurnViaRouter over the stages i..n: the store and the *)
(* checkpoint it holds in memory before stage n + 1.                       *)
LoopUpTo(db, input, checkpoint, i, n, resp) ==
    IF i > n THEN [db |-> db, checkpoint |-> checkpoint]
    ELSE LET r == runStage(db, input, STAGE_ORDER[i], checkpoint, resp, FALSE)
         IN LoopUpTo(r.db, input, r.checkpoint, i + 1, n, resp)

(* C26: a checkpoint that a stage returns, stored in the execution row by   *)
(* updateTurnExecutionProgress and read back by readTurnExecutionCheckpoint *)
(* and parseCheckpoint, is the checkpoint that was stored, absent fields    *)
(* absent and every other field as it was; so the stage that an advance in  *)
(* step mode runs receives the checkpoint that the loop of a normal turn    *)
(* hands to that stage.                                                     *)
C26_CheckpointRoundTrip ==
    /\ \A turn \in Running :
          \A resp \in StepNextResponses(Store, turn) :
              \A r \in {runStage(Store, StepInput(Store, turn),
                                 STAGE_ORDER[exec[turn].cursor + 1],
                                 CheckpointOf(Store, turn), resp, FALSE)} :
                  r.ok =>
                      CheckpointOf(updateTurnExecutionProgress(
                                       r.db, turn, exec[turn].cursor + 1, r.checkpoint,
                                       exec[turn].cursor + 1 = Len(STAGE_ORDER)), turn)
                          = r.checkpoint
    /\ \A turn \in 1..MaxTurn, playerInput \in PlayerInputs :
          (started /\ turn = ExpectedTurn(Store) /\ turn \notin DOMAIN exec) =>
              \A resp \in {r \in Responses : r.failAt = 0} :
                  LET input == [turn |-> turn, playerInput |-> playerInput, playerId |-> PlayerId]
                      entered == startTurnStepExecution(Store, input).db
                      begunTurn == recordTurnStart(Store, input).db
                  IN \A n \in 0..(Len(STAGE_ORDER) - 1) :
                         CheckpointOf(AdvanceTimes(entered, input, resp, n), turn)
                             = LoopUpTo(begunTurn, input, emptyCheckpoint, 1, n, resp).checkpoint

(* A turn run step by step stands before its last stage: the stored         *)
(* checkpoint holds a committed diff and a narration and no refusal reason. *)
C26_Witness ==
    \E turn \in Running :
        /\ exec[turn].mode = "step"
        /\ exec[turn].cursor = Len(STAGE_ORDER) - 1
        /\ IsSome(CheckpointOf(Store, turn).committed)
        /\ IsSome(CheckpointOf(Store, turn).narrationText)
        /\ ~IsSome(CheckpointOf(Store, turn).refusalReason)
        /\ IsSome(CheckpointOf(Store, turn).intent)

(* C27: initializeRunStore on a run that is initialised leaves the store as *)
(* it is: still exactly one snapshot row with turn 0, the events, the later *)
(* snapshots, the pipeline events and the executions untouched, and so the  *)
(* same max(snapshot.turn) and the same nextTurn.                           *)
C27_InitializeIdempotent ==
    started =>
        \A db \in {initializeRunStore(Store)} :
            /\ Count(db.snapshots, LAMBDA row : row.turn = 0) = 1
            /\ db = Store
            /\ readSessionState(db).nextTurn = readSessionState(Store).nextTurn

(* C30: in step mode, an advance whose stage at the cursor fails leaves the *)
(* cursor, the completed flag, the checkpoint and the result of the         *)
(* execution row as they were, and the advance that follows runs the stage  *)
(* at the same cursor again, on the same checkpoint.                        *)
C30_FailedStageLeavesRow ==
    \A turn \in Running :
        exec[turn].mode = "step" =>
            \A resp \in StepNextResponses(Store, turn) :
                \A a \in {advanceTurnStepExecution(Store, StepInput(Store, turn), resp, TRUE)} :
                    ~a.ok =>
                        /\ a.db.exec[turn] = exec[turn]
                        /\ CheckpointOf(a.db, turn) = CheckpointOf(Store, turn)
                        /\ \A again \in StageResponses(exec[turn].cursor + 1) :
                              \A b \in {advanceTurnStepExecution(
                                            a.db, StepInput(a.db, turn), again, FALSE)} :
                                  b.ok =>
                                      /\ LastRow(b.db, turn).stage
                                             = STAGE_ORDER[exec[turn].cursor + 1]
                                      /\ b.db.exec[turn].cursor = exec[turn].cursor + 1
                                      /\ b.db.exec[turn]
                                             = advanceTurnStepExecution(
                                                   Store, StepInput(Store, turn),
                                                   again, FALSE).db.exec[turn]

(* A turn run step by step stands before the arbiter with a proposal in its *)
(* checkpoint; the call of the arbiter fails, and the advance after that    *)
(* one runs the arbiter.                                                    *)
C30_Witness ==
    \E turn \in Running :
        /\ exec[turn].mode = "step"
        /\ STAGE_ORDER[exec[turn].cursor + 1] = "arbiter"
        /\ IsSome(CheckpointOf(Store, turn).proposal)
        /\ \E resp \in StepNextResponses(Store, turn) :
              /\ ~advanceTurnStepExecution(Store, StepInput(Store, turn), resp, TRUE).ok
              /\ advanceTurnStepExecution(Store, StepInput(Store, turn), resp, FALSE).calls
                     = <<"arbiter">>

(* C31: processTurnViaRouter for a turn that has an execution row fails and *)
(* leaves the execution row, the events and the pipeline events of the turn *)
(* as they were before the call.                                            *)
C31_ExistingExecutionRejected ==
    \A turn \in DOMAIN exec :
        \A resp \in StageResponses(0) :
            \A r \in {processTurnViaRouter(Store, StepInput(Store, turn), resp)} :
                /\ ~r.ok
                /\ r.db.exec[turn] = exec[turn]
                /\ SelectSeq(r.db.events, LAMBDA row : row.turn = turn)
                       = SelectSeq(events, LAMBDA row : row.turn = turn)
                /\ RowsOf(r.db, turn) = RowsOf(Store, turn)

(* C32: in every state, those reached when a store write fails part-way     *)
(* through world_state_update or before the execution row is marked         *)
(* completed included, a turn has none or all of its module_trace event,    *)
(* its committed_diff event and its snapshot row, and has each of them once. *)
C32_FinalisationAllOrNothing ==
    \A turn \in 1..MaxTurn :
        \/ Committed(Store, turn) = NothingCommitted
        \/ Committed(Store, turn) = [traces |-> 1, diffs |-> 1, snapshots |-> 1]

(* C33: on a turn that is not refused the arbiter's selection is what is    *)
(* committed: the committed_diff event carries the turn, the operations of  *)
(* arbiter.selectedProposal and the router's fixed summary, the snapshot of *)
(* the turn is made of that diff, and the proser is sent that diff.         *)
C33_ArbiterSelectionCommitted ==
    /\ \A T \in DOMAIN exec :
          (exec[T].completed /\ ~Refused(T)) =>
              LET decision == Get(CheckpointOf(Store, T).arbiterDecision)
                  committed == Payloads(Store, T, "committed_diff")[1]
                  snapshot == SelectSeq(snapshots, LAMBDA row : row.turn = T)[1]
              IN /\ committed.turn = T
                 /\ committed.operations = decision.selectedProposal.operations
                 /\ committed.summary = "Action resolved with router-managed module pipeline."
                 /\ Payloads(Store, T, "module_trace")[1].committed = Some(committed)
                 /\ snapshot.viewState = committed.operations
                 /\ snapshot.worldState = committed.summary
    /\ \A T \in Running :
          (resolveStageFromCursor(exec[T].cursor) = Some("proser") /\ ~Refused(T)) =>
              LET decision == Get(CheckpointOf(Store, T).arbiterDecision)
                  sent == proserRequest(StepInput(Store, T), CheckpointOf(Store, T)).committed
              IN /\ sent.turn = T
                 /\ sent.operations = decision.selectedProposal.operations
                 /\ \A resp \in StageResponses(7) :
                       \A a \in {advanceTurnStepExecution(Store, StepInput(Store, T), resp, FALSE)} :
                           CheckpointOf(a.db, T).committed = Some(sent)

(* A turn is committed whose arbiter selected another proposal than the     *)
(* simulator's, and another turn stands before the proser with such a one.  *)
C33_Witness ==
    /\ \E T \in DOMAIN exec :
          /\ exec[T].completed /\ ~Refused(T)
          /\ Get(CheckpointOf(Store, T).arbiterDecision).selectedProposal = AltProposal
          /\ Payloads(Store, T, "committed_diff")[1].operations = AltProposal.operations
          /\ AltProposal.operations # SimProposal.operations
    /\ \E T \in Running :
          /\ resolveStageFromCursor(exec[T].cursor) = Some("proser")
          /\ Get(CheckpointOf(Store, T).arbiterDecision).selectedProposal = AltProposal

(* The stages of a turn that were executed or skipped: its pipeline events  *)
(* other than frontend_input.                                               *)
StagesDone(db, turn) ==
    Len(SelectSeq(RowsOf(db, turn), LAMBDA row : row.stage # "frontend_input"))

(* C34: every execution row has a cursor from 0 to 8 and is completed       *)
(* exactly when its cursor is 8, and the cursor of a row in step mode that  *)
(* is not completed is the number of stages of the turn that were executed  *)
(* or skipped.                                                              *)
C34_CursorCountsStages ==
    \A turn \in DOMAIN exec :
        /\ exec[turn].cursor \in 0..8
        /\ exec[turn].completed <=> exec[turn].cursor = 8
        /\ (~exec[turn].completed /\ exec[turn].mode = "step") =>
              exec[turn].cursor = StagesDone(Store, turn)

(* C35: when the modules answer with valid outputs, a POST /turn of a turn  *)
(* in sequence ends with the turn completed and each of the eight stages    *)
(* executed once; a step execution is completed after eight stages, no more *)
(* and no fewer; and a step execution whose client keeps advancing it is    *)
(* completed in the end.                                                    *)
C35_StepExecutionCompletes ==
    /\ [](\A turn \in 1..MaxTurn, playerInput \in PlayerInputs :
            (started /\ turn = ExpectedTurn(Store) /\ turn \notin DOMAIN exec) =>
                \A resp \in {r \in Responses : r.failAt = 0} :
                    \A r \in {processTurnViaRouter(
                                  Store, [turn |-> turn, playerInput |-> playerInput,
                                          playerId |-> PlayerId], resp)} :
                        /\ r.ok
                        /\ r.db.exec[turn].completed
                        /\ \A i \in 1..Len(STAGE_ORDER) :
                              Count(RowsOf(r.db, turn),
                                    LAMBDA row : row.stage = STAGE_ORDER[i]) = 1)
    /\ [](\A turn \in DOMAIN exec :
            (exec[turn].mode = "step" /\ exec[turn].completed) =>
                StagesDone(Store, turn) = Len(STAGE_ORDER))
    /\ \A turn \in 1..MaxTurn :
          (turn \in DOMAIN exec /\ exec[turn].mode = "step")
              ~> (turn \in DOMAIN exec /\ exec[turn].completed)

(* Both turns were started step by step and both are completed, each with   *)
(* its eight stages.                                                        *)
C35_Witness ==
    /\ DOMAIN exec = 1..MaxTurn
    /\ \A turn \in DOMAIN exec :
          /\ exec[turn].mode = "step"
          /\ exec[turn].completed
          /\ StagesDone(Store, turn) = Len(STAGE_ORDER)

(* The handles that a request left open: its opens less its closes.         *)
OpenHandles(trace) ==
    Len(SelectSeq(trace, LAMBDA step : step = "open"))
        - Len(SelectSeq(trace, LAMBDA step : step = "close"))

(* The responses that the three POST endpoints can give in this state.      *)
PostResponses ==
    UNION {
        {PostTurnHandler(Store, found, turn, playerInput, resp) :
            resp \in StageResponses(0) \cup StageResponses(1)}
        \cup {StepStartHandler(Store, found, turn, playerInput)}
        \cup {StepNextHandler(Store, found, turn, resp) :
                resp \in StepNextResponses(Store, turn)}
        : found \in {started, FALSE}, turn \in RequestTurns, playerInput \in PlayerInputs }

StartResponses ==
    UNION {
        {PostTurnHandler(Store, started, turn, playerInput, resp) : resp \in StageResponses(0)}
        \cup {StepStartHandler(Store, started, turn, playerInput)}
        : turn \in RequestTurns, playerInput \in PlayerInputs }

(* C37: a turn has at most one player_input event; its text is the player   *)
(* input of the start that created the execution row of the turn, and no     *)
(* later start of the turn, in either mode and with whatever text, adds an   *)
(* event or changes it.                                                      *)
C37_OnePlayerInput ==
    /\ \A turn \in 1..MaxTurn :
          /\ Len(EventsOf(Store, turn, "player_input")) <= 1
          /\ turn \in DOMAIN exec =>
                Payloads(Store, turn, "player_input") = <<[text |-> exec[turn].playerInput]>>
    /\ \A r \in StartResponses :
          \A turn \in 1..MaxTurn :
              Len(EventsOf(Store, turn, "player_input")) = 1 =>
                  EventsOf(r.db, turn, "player_input") = EventsOf(Store, turn, "player_input")

(* A turn was started a second time, as its two frontend_input events show, *)
(* and a start with another text can still be sent; the turn has its one     *)
(* player_input event.                                                       *)
C37_Witness ==
    \E turn \in DOMAIN exec :
        /\ Count(RowsOf(Store, turn), LAMBDA row : row.stage = "frontend_input") = 2
        /\ Len(EventsOf(Store, turn, "player_input")) = 1
        /\ \E r \in StartResponses :
              /\ r.turn = turn
              /\ r.entered
              /\ \E playerInput \in PlayerInputs \ {exec[turn].playerInput} :
                    r = StepStartHandler(Store, started, turn, playerInput)

(* StageResponses as a table, worked out once.                              *)
StageAnswers ==
    [i \in 0..(Len(STAGE_ORDER) + 1) |->
        { r \in [ intent : IF i = 1 THEN IntentOutputs ELSE {DefaultIntent},
                  pre : IF i = 3 THEN PreOutputs ELSE {DefaultPre},
                  arbiter : IF i = 6 THEN ArbiterOutputs ELSE {DefaultArbiter},
                  failAt : {0, i} \cap (0..7) ] :
            r \in Responses }]

(* The answers that the stage of a step/next with this body can get.        *)
StepNextRouteAnswers(body) ==
    IF isInteger(body.turn) /\ Get(body.turn).value \in DOMAIN exec
    THEN StageAnswers[exec[Get(body.turn).value].cursor + 1]
    ELSE StageAnswers[0]

(* P holds of every response that the three POST endpoints give to the      *)
(* bodies in this state.                                                    *)
EveryRouteResponse(P(_)) ==
    /\ \A body \in Bodies :
          /\ \A resp \in StageAnswers[0] :
                \A r \in {PostTurnRoute(Store, started, body, resp)} : P(r)
          /\ \A r \in {StepStartRoute(Store, started, body)} : P(r)
    /\ \A body \in Bodies :
          \A resp \in StepNextRouteAnswers(body) :
              \A r \in {StepNextRoute(Store, started, body, resp)} : P(r)

(* P holds of one of them.                                                  *)
SomeRouteResponse(P(_)) ==
    \/ \E body \in Bodies :
          \/ \E resp \in StageAnswers[0] : P(PostTurnRoute(Store, started, body, resp))
          \/ P(StepStartRoute(Store, started, body))
    \/ \E body \in Bodies :
          \E resp \in StepNextRouteAnswers(body) :
              P(StepNextRoute(Store, started, body, resp))

(* C38: a request answered 400 (a field missing, a turn that is no integer  *)
(* or is below 1), 404 (run unknown, or no execution to advance) or 409      *)
(* (turn out of sequence, step conflict) was not handed to the pipeline      *)
(* driver: it leaves events, snapshots, pipeline events and execution rows   *)
(* as they are and calls no module.                                          *)
C38_RejectedRequestWritesNothing ==
    EveryRouteResponse(LAMBDA r :
        r.status \in {400, 404, 409} =>
            /\ r.db = Store
            /\ r.calls = <<>>
            /\ ~r.entered)

(* A turn is running and the store has rows; requests are rejected for a    *)
(* missing field, a turn below 1, an unknown run, a missing execution and a  *)
(* turn out of sequence.                                                     *)
C38_Witness ==
    /\ Running # {}
    /\ \A code \in {"BAD_TURN_REQUEST", "BAD_STEP_START_REQUEST", "BAD_STEP_NEXT_REQUEST",
                    "INVALID_TURN_INDEX", "RUN_NOT_FOUND", "STEP_EXECUTION_NOT_FOUND",
                    "TURN_SEQUENCE_CONFLICT"} :
          SomeRouteResponse(LAMBDA r : r.code = code /\ r.status \in {400, 404, 409})

(* The rows of the four tables that belong to the turns other than turn.   *)
OtherTurns(db, turn) ==
    [events |-> SelectSeq(db.events, LAMBDA row : row.turn # turn),
     snapshots |-> SelectSeq(db.snapshots, LAMBDA row : row.turn # turn),
     pipeline |-> SelectSeq(db.pipeline, LAMBDA row : row.turn # turn),
     exec |-> [t \in DOMAIN db.exec \ {turn} |-> db.exec[t]]]

(* after holds the rows of table before, in their places, and then rows of  *)
(* turn only.                                                               *)
ExtendedForTurn(before, after, turn) ==
    /\ Len(before) <= Len(after)
    /\ SubSeq(after, 1, Len(before)) = before
    /\ \A i \in (Len(before) + 1)..Len(after) : after[i].turn = turn

(* The store that a call for turn leaves touches turn only.                 *)
TouchesOnly(db, turn) ==
    /\ OtherTurns(db, turn) = OtherTurns(Store, turn)
    /\ ExtendedForTurn(events, db.events, turn)
    /\ ExtendedForTurn(snapshots, db.snapshots, turn)
    /\ ExtendedForTurn(pipeline, db.pipeline, turn)
    /\ DOMAIN db.exec \subseteq DOMAIN exec \cup {turn}

(* The turns that a call of the pipeline driver is made for.                *)
DriverTurns == 1..(MaxTurn + 1)

(* The answers to the calls of a whole turn that is run for turn.           *)
TurnAnswers(turn) ==
    IF turn = ExpectedTurn(Store) THEN Responses ELSE StageAnswers[0] \cup StageAnswers[1]

(* The answers to the call of the stage that turn has reached.              *)
AdvanceAnswers(turn) ==
    IF turn \in DOMAIN exec THEN StageAnswers[exec[turn].cursor + 1] ELSE StageAnswers[0]

(* C39: a call of processTurnViaRouter, startTurnStepExecution or           *)
(* advanceTurnStepExecution for turn T touches turn T only: the events,     *)
(* snapshots and pipeline events it writes are appended and carry T, the    *)
(* only execution row it creates or updates is that of T, and the rows of   *)
(* every other turn, the seed snapshot of turn 0 among them, are as before. *)
C39_TouchesOwnTurnOnly ==
    \A turn \in DriverTurns : \A playerInput \in PlayerInputs :
        LET input == [turn |-> turn, playerInput |-> playerInput, playerId |-> PlayerId] IN
        /\ \A resp \in TurnAnswers(turn) :
              TouchesOnly(processTurnViaRouter(Store, input, resp).db, turn)
        /\ TouchesOnly(startTurnStepExecution(Store, input).db, turn)
        /\ \A resp \in AdvanceAnswers(turn) :
              TouchesOnly(advanceTurnStepExecution(
                              Store, input, resp,
                              turn \in DOMAIN exec /\ resp.failAt = exec[turn].cursor + 1).db,
                          turn)

(* A turn is advanced to its end, and writes its snapshot, in a run that    *)
(* holds the seed snapshot and the rows of an earlier turn.                 *)
C39_Witness ==
    \E turn \in Running :
        /\ exec[turn].cursor = Len(STAGE_ORDER) - 1
        /\ \E t \in DOMAIN exec : t # turn /\ exec[t].completed
        /\ \E i \in 1..Len(snapshots) : snapshots[i] = SeedSnapshot
        /\ OtherTurns(Store, turn).events # <<>>
        /\ OtherTurns(Store, turn).pipeline # <<>>
        /\ \E resp \in AdvanceAnswers(turn) :
              LET input == [turn |-> turn, playerInput |-> exec[turn].playerInput,
                            playerId |-> PlayerId]
                  r == advanceTurnStepExecution(Store, input, resp, FALSE)
              IN /\ r.ok
                 /\ Len(r.db.snapshots) = Len(snapshots) + 1
                 /\ r.db.exec[turn].completed
                 /\ TouchesOnly(r.db, turn)

(* C40: startTurnStepExecution called for a turn whose execution exists     *)
(* and is not completed returns that execution, with the cursor it has, and *)
(* leaves the store as it is: no player_input event, no frontend_input      *)
(* pipeline event and no execution row is added, and the cursor and the     *)
(* checkpoint of the row are not reset.  POST /turn/step/start for such a   *)
(* turn that is answered 200 leaves the store as it is, too.                *)
C40_StepStartIdempotent ==
    \A turn \in Running : \A playerInput \in PlayerInputs :
        LET input == [turn |-> turn, playerInput |-> playerInput, playerId |-> PlayerId]
            again == startTurnStepExecution(Store, input)
            twice == startTurnStepExecution(again.db, input)
        IN /\ again.ok
           /\ again.state = getTurnExecutionState(Store, turn)
           /\ Get(again.state).cursor = exec[turn].cursor
           /\ EventsOf(again.db, turn, "player_input") = EventsOf(Store, turn, "player_input")
           /\ RowsOf(again.db, turn) = RowsOf(Store, turn)
           /\ DOMAIN again.db.exec = DOMAIN exec
           /\ again.db.exec[turn].cursor = exec[turn].cursor
           /\ again.db.exec[turn].checkpoint = exec[turn].checkpoint
           /\ again.db = Store
           /\ twice = again
           /\ \A r \in {StepStartHandler(Store, started, turn, playerInput)} :
                 r.status = 200 => r.db = Store

(* A stepped turn that has run stages and holds a checkpoint is started     *)
(* again with another text, through the endpoint, and the answer is 200.    *)
C40_Witness ==
    \E turn \in Running : \E playerInput \in PlayerInputs \ {exec[turn].playerInput} :
        LET input == [turn |-> turn, playerInput |-> playerInput, playerId |-> PlayerId]
            again == startTurnStepExecution(Store, input)
        IN /\ exec[turn].mode = "step"
           /\ exec[turn].cursor > 2
           /\ CheckpointOf(Store, turn) # emptyCheckpoint
           /\ Len(EventsOf(Store, turn, "player_input")) = 1
           /\ again.ok
           /\ Get(again.state).cursor = exec[turn].cursor
           /\ Get(again.state).playerInput = exec[turn].playerInput
           /\ StepStartHandler(Store, started, turn, playerInput).status = 200
           /\ StepStartHandler(Store, started, turn, playerInput).db = Store

====
